---- MODULE Spec2Model ----
(***************************************************************************)
(* Detection-and-normalization engine of the python detector:              *)
(*   detector.py         TemplateDetector (NMS, iou, region mapping, OCR   *)
(*                       normalisation)                                    *)
(*   detector_server.py  cross_model_nms, calculate_iou, detect_in_pdf     *)
(*                                                                         *)
(* Page-fraction coordinates are modelled on an integer grid (one grid     *)
(* step is 1/GridUnits of the page); box centres are kept doubled so that  *)
(* x + width/2 stays an integer.  IoU values are exact fractions           *)
(* [num, den].  Confidences are integer levels.                            *)
(***************************************************************************)
EXTENDS Integers, Sequences, FiniteSets, TLC

VARIABLES
    pc,              \* position of the modelled call
    detections,      \* TemplateDetector.detect: raw candidate list
    keep,            \* result of non_max_suppression(detections)
    keep2,           \* result of non_max_suppression(keep)
    all_detections,  \* detect_in_pdf: pooled detections of all models
    filtered,        \* result of cross_model_nms(all_detections)
    box1, box2,      \* arguments of iou / calculate_iou
    iou_det,         \* TemplateDetector.iou(box1, box2)
    iou_srv,         \* detector_server.calculate_iou(box1, box2)
    rel_region,      \* a subclass region's relative rectangle
    det_bbox,        \* bbox of the detection the region is mapped for
    detected_rotation,  \* det['detected_rotation']
    detected_inverted,  \* det['detected_inverted']
    rect_new,        \* extract_subclass_values, region in the current format
    rect_old,        \* extract_subclass_values, region in the legacy format
    back_rotation,   \* rotation of the second mapping of a round trip
    rel_back,        \* relative rectangle after the second mapping
    upright,         \* annotated training crop
    region_img,      \* page crop matched by a template variant
    ocr_sub,         \* crop handed to OCR by extract_subclass_values
    ocr_box,         \* crop handed to OCR by extract_text_from_detections
    ocr_srv,         \* crop handed to OCR by detect_in_pdf (whole box)
    dd_results,      \* deduplicate_results: the TextItems of both OCR passes
    dd_keep,         \* deduplicate_results: the returned list
    dd_dup,          \* deduplicate_results: is_duplicate of each sorted item
    fix_text,        \* fix_ocr_with_format: the OCR text
    fix_format,      \* fix_ocr_with_format: the format template
    fix_result,      \* fix_ocr_with_format: the returned string
    fix_trace,       \* fix_ocr_with_format: what each section consumed and emitted
    sv_detections,   \* extract_subclass_values: the detections handed in
    sv_world,        \* extract_subclass_values: which pages render, what OCR does
    sv_result,       \* extract_subclass_values: the returned detections
    of_det,          \* a detection about to be read by OCR
    of_world,        \* whether OCR is installed, renders, reads or raises
    of_extract,      \* outcome of extract_text_from_detections for of_det
    of_server,       \* outcome of detect_in_pdf's OCR step for of_det
    detector,        \* a TemplateDetector, its training call and its detect call
    pdf_run,         \* detect_in_pdf: the frame of one call
    page_cache,      \* detector._page_cache, keys in insertion order
    threads,         \* the callers of render_pdf_page_cached and where each one is
    model_store,     \* MODELS_DIR and detector_server.loaded_detectors
    crop             \* extract_subclass_values: one region's crop rectangle

nmsVars    == <<detections, keep, keep2>>
crossVars  == <<all_detections, filtered>>
iouVars    == <<box1, box2, iou_det, iou_srv>>
detVars    == <<detected_rotation, detected_inverted>>
regionVars == <<rel_region, det_bbox, rect_new, rect_old, back_rotation, rel_back>>
ocrVars    == <<upright, region_img, ocr_sub, ocr_box, ocr_srv>>

dedupVars  == <<dd_results, dd_keep, dd_dup>>

\* state of the text pipeline (full-page OCR dedup, format correction)
fixVars    == <<fix_text, fix_format, fix_result, fix_trace>>
subVars    == <<sv_detections, sv_world, sv_result>>
failVars   == <<of_det, of_world, of_extract, of_server>>
textVars   == <<dedupVars, fixVars, subVars, failVars>>
sysVars    == <<detector, pdf_run, page_cache, threads, model_store, crop>>

vars == <<pc, nmsVars, crossVars, iouVars, detVars, regionVars, ocrVars, textVars, sysVars>>

notNmsVars   == <<crossVars, iouVars, detVars, regionVars, ocrVars, textVars, sysVars>>
notCrossVars == <<nmsVars, iouVars, detVars, regionVars, ocrVars, textVars, sysVars>>
notIouVars   == <<nmsVars, crossVars, detVars, regionVars, ocrVars, textVars, sysVars>>
\* everything but pc and the text pipeline
geomVars     == <<nmsVars, crossVars, iouVars, detVars, regionVars, ocrVars>>

(***************************************************************************)
(* Bounds of the model                                                     *)
(***************************************************************************)
MaxCoord == 1      \* box origins in 0..MaxCoord (grid steps)
MaxSide  == 2      \* box width/height up to MaxSide (grid steps)
MaxDets  == 3      \* raw candidates per detect() call
MaxPool  == 3      \* pooled detections per detect_in_pdf call

Labels     == {"FI", "TI"}
ModelIds   == {"FI_1", "TI_1"}
ConfLevels == {1, 2}     \* two confidence levels: ties and strict order
Pages      == {0, 1}     \* page indices of a two-page request

Max(a, b) == IF a >= b THEN a ELSE b
Min(a, b) == IF a <= b THEN a ELSE b

BBox(x, y, w, h) == [x |-> x, y |-> y, width |-> w, height |-> h]

\* boxes of template matches: templates of one or two grid steps a side,
\* matched at two neighbouring locations
MatchBoxes == { BBox(x, 0, w, h) : x \in {0, 1}, w \in {1, 2}, h \in {1, 2} }

\* non-degenerate boxes on one row of the grid
Boxes == { BBox(x, 0, w, h) : x \in 0..MaxCoord, w \in 1..MaxSide, h \in 1..MaxSide }

\* boxes handed to the IoU functions, degenerate ones included
AnyBoxes == { BBox(x, y, w, h) : x \in 0..MaxCoord, y \in 0..MaxCoord,
                                 w \in 0..MaxSide, h \in 0..MaxSide }

(***************************************************************************)
(* Geometry: TemplateDetector.iou and detector_server.calculate_iou        *)
(***************************************************************************)
ZeroIoU == [num |-> 0, den |-> 1]

\* union taken as the sum of the two areas
iou_UnionIsSum(b1, b2) ==
    LET x1_i == Max(b1.x, b2.x)
        y1_i == Max(b1.y, b2.y)
        x2_i == Min(b1.x + b1.width, b2.x + b2.width)
        y2_i == Min(b1.y + b1.height, b2.y + b2.height)
        intersection == (x2_i - x1_i) * (y2_i - y1_i)
        union == b1.width * b1.height + b2.width * b2.height
    IN  IF x2_i < x1_i \/ y2_i < y1_i
        THEN ZeroIoU
        ELSE IF union > 0 THEN [num |-> intersection, den |-> union]
                          ELSE ZeroIoU

iou(b1, b2) ==
    LET x1_1 == b1.x
        y1_1 == b1.y
        x2_1 == b1.x + b1.width
        y2_1 == b1.y + b1.height
        x1_2 == b2.x
        y1_2 == b2.y
        x2_2 == b2.x + b2.width
        y2_2 == b2.y + b2.height
        x1_i == Max(x1_1, x1_2)
        y1_i == Max(y1_1, y1_2)
        x2_i == Min(x2_1, x2_2)
        y2_i == Min(y2_1, y2_2)
        intersection == (x2_i - x1_i) * (y2_i - y1_i)
        area1 == (x2_1 - x1_1) * (y2_1 - y1_1)
        area2 == (x2_2 - x1_2) * (y2_2 - y1_2)
        union == area1 + area2 - intersection
    IN  IF x2_i < x1_i \/ y2_i < y1_i
        THEN ZeroIoU
        ELSE IF union > 0 THEN [num |-> intersection, den |-> union]
                          ELSE ZeroIoU

calculate_iou(b1, b2) ==
    LET x1_1 == b1.x
        y1_1 == b1.y
        x2_1 == x1_1 + b1.width
        y2_1 == y1_1 + b1.height
        x1_2 == b2.x
        y1_2 == b2.y
        x2_2 == x1_2 + b2.width
        y2_2 == y1_2 + b2.height
        x1_i == Max(x1_1, x1_2)
        y1_i == Max(y1_1, y1_2)
        x2_i == Min(x2_1, x2_2)
        y2_i == Min(y2_1, y2_2)
        intersection == (x2_i - x1_i) * (y2_i - y1_i)
        area1 == (x2_1 - x1_1) * (y2_1 - y1_1)
        area2 == (x2_2 - x1_2) * (y2_2 - y1_2)
        union == area1 + area2 - intersection
    IN  IF x2_i < x1_i \/ y2_i < y1_i
        THEN ZeroIoU
        ELSE IF union > 0 THEN [num |-> intersection, den |-> union]
                          ELSE ZeroIoU

\* iou >= iou_threshold for iou_threshold = 0.5
IouAtLeastHalf(f) == 2 * f.num >= f.den

\* doubled centre coordinates: 2 * (x + width / 2)
Cx2(b) == 2 * b.x + b.width
Cy2(b) == 2 * b.y + b.height

\* max(width, height)
BestSize(b) == Max(b.width, b.height)

\* center_dist < best_size * 0.5, squared and doubled:
\* (2*dist)^2 < best_size^2
CenterClose(best, d) ==
    LET dx == Cx2(best) - Cx2(d)
        dy == Cy2(best) - Cy2(d)
    IN  dx * dx + dy * dy < BestSize(best) * BestSize(best)

(***************************************************************************)
(* sorted(detections, key=confidence, reverse=True): stable, descending    *)
(***************************************************************************)
RECURSIVE InsertByConfidence(_, _)
InsertByConfidence(s, d) ==
    IF s = <<>> THEN <<d>>
    ELSE IF Head(s).confidence >= d.confidence
         THEN <<Head(s)>> \o InsertByConfidence(Tail(s), d)
         ELSE <<d>> \o s

\* insertion that puts d in front of the entries of equal confidence
RECURSIVE InsertBeforeEqual(_, _)
InsertBeforeEqual(s, d) ==
    IF s = <<>> THEN <<d>>
    ELSE IF Head(s).confidence > d.confidence
         THEN <<Head(s)>> \o InsertBeforeEqual(Tail(s), d)
         ELSE <<d>> \o s

\* a descending sort that is not stable: equal confidences come out reversed
RECURSIVE SortByConfidence_TiesReversed(_)
SortByConfidence_TiesReversed(s) ==
    IF s = <<>> THEN <<>>
    ELSE InsertBeforeEqual(SortByConfidence_TiesReversed(SubSeq(s, 1, Len(s) - 1)), s[Len(s)])

\* an ascending sort
RECURSIVE SortByConfidence_Ascending(_)
SortByConfidence_Ascending(s) ==
    IF s = <<>> THEN <<>>
    ELSE LET t == SortByConfidence_Ascending(SubSeq(s, 1, Len(s) - 1))
             d == s[Len(s)]
             n == Cardinality({ i \in 1..Len(t) : t[i].confidence <= d.confidence })
         IN  SubSeq(t, 1, n) \o <<d>> \o SubSeq(t, n + 1, Len(t))

RECURSIVE SortByConfidence(_)
SortByConfidence(s) ==
    IF s = <<>> THEN <<>>
    ELSE InsertByConfidence(SortByConfidence(SubSeq(s, 1, Len(s) - 1)), s[Len(s)])

(***************************************************************************)
(* TemplateDetector.non_max_suppression                                    *)
(***************************************************************************)
\* suppression by IoU alone
NmsSuppresses_IouOnly(best, d) ==
    IouAtLeastHalf(iou(best.bbox, d.bbox))

\* the two "continue" tests of the inner loop
NmsSuppresses(best, d) ==
    \/ (d.label = best.label /\ CenterClose(best.bbox, d.bbox))
    \/ IouAtLeastHalf(iou(best.bbox, d.bbox))

RECURSIVE NmsLoop(_, _)
NmsLoop(dets, kept) ==
    IF dets = <<>> THEN kept
    ELSE LET best == Head(dets)
             rest == SelectSeq(Tail(dets), LAMBDA d : ~NmsSuppresses(best, d))
         IN  NmsLoop(rest, Append(kept, best))

non_max_suppression(dets) ==
    IF dets = <<>> THEN <<>>
    ELSE NmsLoop(SortByConfidence(dets), <<>>)

(***************************************************************************)
(* detector_server.cross_model_nms                                         *)
(***************************************************************************)
\* suppression by IoU alone
CrossSuppresses_IouOnly(best, d) ==
    IouAtLeastHalf(calculate_iou(best.bbox, d.bbox))

\* the two "continue" tests of the inner loop
CrossSuppresses(best, d) ==
    \/ CenterClose(best.bbox, d.bbox)
    \/ IouAtLeastHalf(calculate_iou(best.bbox, d.bbox))

RECURSIVE CrossLoop(_, _)
CrossLoop(page_dets, kept) ==
    IF page_dets = <<>> THEN kept
    ELSE LET best      == Head(page_dets)
             remaining == SelectSeq(Tail(page_dets), LAMBDA d : ~CrossSuppresses(best, d))
         IN  CrossLoop(remaining, Append(kept, best))

\* keys of by_page in insertion order (first appearance of each page)
RECURSIVE PageOrder(_)
PageOrder(dets) ==
    IF dets = <<>> THEN <<>>
    ELSE LET p == Head(dets).page
         IN  <<p>> \o PageOrder(SelectSeq(Tail(dets), LAMBDA d : d.page # p))

\* a grouping that puts every detection into one group
by_page_OneGroup(dets) == <<dets>>

\* by_page.items(): one list of detections per page, pages in insertion order
by_page(dets) ==
    LET order == PageOrder(dets)
    IN  [k \in 1..Len(order) |-> SelectSeq(dets, LAMBDA d : d.page = order[k])]

RECURSIVE Concat(_)
Concat(groups) ==
    IF groups = <<>> THEN <<>>
    ELSE Head(groups) \o Concat(Tail(groups))

cross_model_nms(dets) ==
    IF dets = <<>> THEN <<>>
    ELSE LET groups == by_page(dets)
         IN  Concat([k \in 1..Len(groups) |->
                        CrossLoop(SortByConfidence(groups[k]), <<>>)])

(***************************************************************************)
(* TemplateDetector.detect: candidates are appended, then suppressed       *)
(***************************************************************************)
Candidates ==
    { [bbox |-> b, label |-> l, confidence |-> c] :
        b \in MatchBoxes, l \in Labels, c \in ConfLevels }

IdleNms   == detections = <<>> /\ keep = <<>> /\ keep2 = <<>>
IdleCross == all_detections = <<>> /\ filtered = <<>>
IdleIou   == box1 = BBox(0, 0, 1, 1) /\ box2 = BBox(0, 0, 1, 1)
             /\ iou_det = ZeroIoU /\ iou_srv = ZeroIoU
IdleDet   == detected_rotation = 0 /\ detected_inverted = FALSE
NoRect    == [rel |-> <<0, 0, 0, 0>>, px |-> <<0, 0, 0, 0>>]
IdleRegion == /\ rel_region = <<0, 0, 0, 0>> /\ det_bbox = BBox(0, 0, 1, 1)
              /\ rect_new = NoRect /\ rect_old = NoRect
              /\ back_rotation = 0 /\ rel_back = <<0, 0, 0, 0>>
IdleOcr   == /\ upright = <<>> /\ region_img = <<>>
             /\ ocr_sub = <<>> /\ ocr_box = <<>> /\ ocr_srv = <<>>
IdleDedup == dd_results = <<>> /\ dd_keep = <<>> /\ dd_dup = <<>>
IdleFix   == fix_text = <<>> /\ fix_format = <<>> /\ fix_result = <<>> /\ fix_trace = <<>>
IdleSub   == sv_detections = <<>> /\ sv_world = <<>> /\ sv_result = <<>>
IdleFail  == of_det = <<>> /\ of_world = <<>> /\ of_extract = <<>> /\ of_server = <<>>
IdleText  == IdleDedup /\ IdleFix /\ IdleSub /\ IdleFail
IdleDetector == detector = <<>>
IdlePdfRun   == pdf_run = <<>>
IdleCache    == page_cache = <<>> /\ threads = <<>>
IdleStore    == model_store = <<>>
IdleCrop     == crop = <<>>
IdleSys   == IdleDetector /\ IdlePdfRun /\ IdleCache /\ IdleStore /\ IdleCrop
IdleGeom  == IdleNms /\ IdleCross /\ IdleIou /\ IdleDet /\ IdleRegion /\ IdleOcr

InitNms == pc = "detect" /\ IdleNms /\ IdleCross /\ IdleIou /\ IdleDet /\ IdleRegion /\ IdleOcr /\ IdleText /\ IdleSys

\* one template match above the threshold
AppendCandidate ==
    /\ pc = "detect"
    /\ Len(detections) < MaxDets
    /\ \E d \in Candidates : detections' = Append(detections, d)
    /\ UNCHANGED <<pc, keep, keep2, notNmsVars>>

\* the call at the end of detect()
RunNms ==
    /\ pc = "detect"
    /\ keep' = non_max_suppression(detections)
    /\ pc' = "nms"
    /\ UNCHANGED <<detections, keep2, notNmsVars>>

\* the suppression applied to its own output
RerunNms ==
    /\ pc = "nms"
    /\ keep2' = non_max_suppression(keep)
    /\ pc' = "renms"
    /\ UNCHANGED <<detections, keep, notNmsVars>>

NextNms == AppendCandidate \/ RunNms \/ RerunNms

SpecNms == InitNms /\ [][NextNms]_vars

(***************************************************************************)
(* detect_in_pdf: detections of every model and page are pooled, then      *)
(* cross_model_nms runs on the pool                                        *)
(***************************************************************************)
\* className of a model: model_id.split('_')[0]
ModelLabel(m) == IF m = "FI_1" THEN "FI" ELSE "TI"

\* boxes of detectors that fired on the same physical symbol
PoolBoxes == { BBox(0, 0, w, h) : w \in {1, 2}, h \in {1, 2} }

PoolCandidates ==
    { [bbox |-> b, label |-> ModelLabel(m), confidence |-> c,
       page |-> p, model_id |-> m] :
        b \in PoolBoxes, m \in ModelIds, c \in ConfLevels, p \in Pages }

InitCross == pc = "pool" /\ IdleNms /\ IdleCross /\ IdleIou /\ IdleDet /\ IdleRegion /\ IdleOcr /\ IdleText /\ IdleSys

\* all_detections.append(det)
PoolDetection ==
    /\ pc = "pool"
    /\ Len(all_detections) < MaxPool
    /\ \E d \in PoolCandidates : all_detections' = Append(all_detections, d)
    /\ UNCHANGED <<pc, filtered, notCrossVars>>

\* all_detections = cross_model_nms(all_detections, iou_threshold=0.5)
RunCrossNms ==
    /\ pc = "pool"
    /\ filtered' = cross_model_nms(all_detections)
    /\ pc' = "cross"
    /\ UNCHANGED <<all_detections, notCrossVars>>

NextCross == PoolDetection \/ RunCrossNms

SpecCross == InitCross /\ [][NextCross]_vars

(***************************************************************************)
(* The two IoU functions applied to a pair of boxes                        *)
(***************************************************************************)
InitIou ==
    /\ pc = "args"
    /\ IdleNms /\ IdleCross /\ IdleDet /\ IdleRegion /\ IdleOcr /\ IdleText /\ IdleSys
    /\ box1 \in AnyBoxes /\ box2 \in AnyBoxes
    /\ iou_det = ZeroIoU /\ iou_srv = ZeroIoU

CallIou ==
    /\ pc = "args"
    /\ iou_det' = iou(box1, box2)
    /\ pc' = "iou"
    /\ UNCHANGED <<box1, box2, iou_srv, notIouVars>>

CallCalculateIou ==
    /\ pc = "iou"
    /\ iou_srv' = calculate_iou(box1, box2)
    /\ pc' = "iou_done"
    /\ UNCHANGED <<box1, box2, iou_det, notIouVars>>

NextIou == CallIou \/ CallCalculateIou

SpecIou == InitIou /\ [][NextIou]_vars

(***************************************************************************)
(* TemplateDetector.extract_subclass_values: mapping of a subclass region  *)
(* into the page raster.  Relative coordinates are multiples of            *)
(* 1/RelUnits, a relative rectangle is <<x, y, w, h>>.                     *)
(***************************************************************************)
RelUnits == 3      \* relative coordinates 0..RelUnits stand for 0..1
RasterW  == 16     \* page raster width in pixels
RasterH  == 10     \* page raster height in pixels

\* page-fraction grid: a page is GridUnits steps wide and high
GridUnits == MaxCoord + MaxSide

Rotations == {0, 90, 180, 270}

\* int(): truncation towards zero of num / den, den > 0
IntTrunc(num, den) ==
    IF num >= 0 THEN num \div den ELSE 0 - ((0 - num) \div den)

\* rotation that uses the 90-degree formula for 270 degrees as well
RotateRelNew_Same270(rel, rotation) ==
    LET rel_x == rel[1]
        rel_y == rel[2]
        rel_w == rel[3]
        rel_h == rel[4]
    IN  IF rotation = 90 \/ rotation = 270
        THEN <<RelUnits - rel_y - rel_h, rel_x, rel_h, rel_w>>
        ELSE IF rotation = 180
        THEN <<RelUnits - rel_x - rel_w, RelUnits - rel_y - rel_h, rel_w, rel_h>>
        ELSE rel

\* current format: "First apply rotation transform"
RotateRelNew(rel, rotation) ==
    LET rel_x == rel[1]
        rel_y == rel[2]
        rel_w == rel[3]
        rel_h == rel[4]
    IN  IF rotation = 90
        THEN <<RelUnits - rel_y - rel_h, rel_x, rel_h, rel_w>>
        ELSE IF rotation = 180
        THEN <<RelUnits - rel_x - rel_w, RelUnits - rel_y - rel_h, rel_w, rel_h>>
        ELSE IF rotation = 270
        THEN <<rel_y, RelUnits - rel_x - rel_w, rel_h, rel_w>>
        ELSE rel

\* current format: "Then apply inversion (flip X)"
InvertRelNew(rel, inverted) ==
    IF inverted THEN <<RelUnits - rel[1] - rel[3], rel[2], rel[3], rel[4]>>
    ELSE rel

\* inversion applied before the rotation
TransformRelNew_InvertFirst(rel, rotation, inverted) ==
    RotateRelNew(InvertRelNew(rel, inverted), rotation)

\* current format: rotation, then inversion
TransformRelNew(rel, rotation, inverted) ==
    InvertRelNew(RotateRelNew(rel, rotation), inverted)

\* current format: "Apply to detection bbox"
\*   int((det_bbox.x + rel_x * det_bbox.width) * w) and so on
ToPixelsNew(rel, bbox, w, h) ==
    << IntTrunc((bbox.x * RelUnits + rel[1] * bbox.width) * w, RelUnits * GridUnits),
       IntTrunc((bbox.y * RelUnits + rel[2] * bbox.height) * h, RelUnits * GridUnits),
       IntTrunc(rel[3] * bbox.width * w, RelUnits * GridUnits),
       IntTrunc(rel[4] * bbox.height * h, RelUnits * GridUnits) >>

\* legacy format: "Apply rotation transform (actual rotation, not opposite)"
RotateRelOld(rel, rotation) ==
    LET rel_x == rel[1]
        rel_y == rel[2]
        rel_w == rel[3]
        rel_h == rel[4]
    IN  IF rotation = 90
        THEN <<RelUnits - rel_y - rel_h, rel_x, rel_h, rel_w>>
        ELSE IF rotation = 180
        THEN <<RelUnits - rel_x - rel_w, RelUnits - rel_y - rel_h, rel_w, rel_h>>
        ELSE IF rotation = 270
        THEN <<rel_y, RelUnits - rel_x - rel_w, rel_h, rel_w>>
        ELSE rel

\* legacy format: "Apply inversion (flip X)"
InvertRelOld(rel, inverted) ==
    IF inverted THEN <<RelUnits - rel[1] - rel[3], rel[2], rel[3], rel[4]>>
    ELSE rel

\* legacy transform that leaves out the inversion
TransformRelOld_NoInvert(rel, rotation, inverted) ==
    RotateRelOld(rel, rotation)

\* legacy format: rotation, then inversion
TransformRelOld(rel, rotation, inverted) ==
    InvertRelOld(RotateRelOld(rel, rotation), inverted)

\* legacy format: "Apply to detection bbox"
ToPixelsOld(rel, bbox, w, h) ==
    << IntTrunc((bbox.x * RelUnits + rel[1] * bbox.width) * w, RelUnits * GridUnits),
       IntTrunc((bbox.y * RelUnits + rel[2] * bbox.height) * h, RelUnits * GridUnits),
       IntTrunc(rel[3] * bbox.width * w, RelUnits * GridUnits),
       IntTrunc(rel[4] * bbox.height * h, RelUnits * GridUnits) >>

\* the two region formats of the model metadata
NewFormatRegion(rel) ==
    [relativeX |-> rel[1], relativeY |-> rel[2],
     relativeWidth |-> rel[3], relativeHeight |-> rel[4]]

OldFormatRegion(rel) ==
    [x |-> rel[1], y |-> rel[2], width |-> rel[3], height |-> rel[4]]

\* the region rectangle of one detection and one region, before padding:
\* the transformed relative rectangle and its pixel rectangle
RegionRect(region, bbox, rotation, inverted, w, h) ==
    IF "relativeX" \in DOMAIN region
    THEN LET rel == TransformRelNew(
                        <<region.relativeX, region.relativeY,
                          region.relativeWidth, region.relativeHeight>>,
                        rotation, inverted)
         IN  [rel |-> rel, px |-> ToPixelsNew(rel, bbox, w, h)]
    ELSE LET rel == TransformRelOld(
                        <<region.x, region.y, region.width, region.height>>,
                        rotation, inverted)
         IN  [rel |-> rel, px |-> ToPixelsOld(rel, bbox, w, h)]

\* relative rectangles inside the unit square, of positive width and height
RelRects ==
    { <<x, y, w, h>> : x \in 0..(RelUnits - 1), y \in 0..(RelUnits - 1),
                       w \in 1..RelUnits, h \in 1..RelUnits } \cap
    { r \in (0..RelUnits) \X (0..RelUnits) \X (0..RelUnits) \X (0..RelUnits) :
        r[1] + r[3] <= RelUnits /\ r[2] + r[4] <= RelUnits }

InitRegion ==
    /\ pc = "region"
    /\ IdleNms /\ IdleCross /\ IdleIou /\ IdleOcr /\ IdleText /\ IdleSys
    /\ rel_region \in RelRects
    /\ det_bbox \in Boxes
    /\ detected_rotation \in Rotations
    /\ detected_inverted \in BOOLEAN
    /\ rect_new = NoRect /\ rect_old = NoRect
    /\ back_rotation = 0 /\ rel_back = <<0, 0, 0, 0>>

\* extract_subclass_values on a region stored in the current format
MapNewFormat ==
    /\ pc = "region"
    /\ rect_new' = RegionRect(NewFormatRegion(rel_region), det_bbox,
                              detected_rotation, detected_inverted, RasterW, RasterH)
    /\ pc' = "mapped_new"
    /\ UNCHANGED <<rel_region, det_bbox, rect_old, back_rotation, rel_back,
                   detVars, nmsVars, crossVars, iouVars, ocrVars, textVars, sysVars>>

\* extract_subclass_values on the same region stored in the legacy format
MapOldFormat ==
    /\ pc = "mapped_new"
    /\ rect_old' = RegionRect(OldFormatRegion(rel_region), det_bbox,
                              detected_rotation, detected_inverted, RasterW, RasterH)
    /\ pc' = "mapped"
    /\ UNCHANGED <<rel_region, det_bbox, rect_new, back_rotation, rel_back,
                   detVars, nmsVars, crossVars, iouVars, ocrVars, textVars, sysVars>>

\* the mapped rectangle mapped once more, for a detection of rotation r
\* and the same mirror state
MapBack ==
    /\ pc = "mapped"
    /\ \E r \in Rotations :
          /\ back_rotation' = r
          /\ rel_back' = RegionRect(NewFormatRegion(rect_new.rel), det_bbox,
                                    r, detected_inverted, RasterW, RasterH).rel
    /\ pc' = "back"
    /\ UNCHANGED <<rel_region, det_bbox, rect_new, rect_old,
                   detVars, nmsVars, crossVars, iouVars, ocrVars, textVars, sysVars>>

NextRegion == MapNewFormat \/ MapOldFormat \/ MapBack

SpecRegion == InitRegion /\ [][NextRegion]_vars

(***************************************************************************)
(* Un-rotating a crop for OCR.  An image is a sequence of pixel rows.      *)
(***************************************************************************)
MaxImg == 2        \* crops of 1..MaxImg rows and columns

Images ==
    UNION { [1..h -> [1..w -> {0, 1}]] : h \in 1..MaxImg, w \in 1..MaxImg }

Rows(img) == Len(img)
Cols(img) == Len(img[1])

\* cv2.rotate(img, rotateCode)
cv2_rotate(img, rotateCode) ==
    LET H == Rows(img)
        W == Cols(img)
    IN  CASE rotateCode = "ROTATE_90_CLOCKWISE" ->
               [i \in 1..W |-> [j \in 1..H |-> img[H + 1 - j][i]]]
          [] rotateCode = "ROTATE_90_COUNTERCLOCKWISE" ->
               [i \in 1..W |-> [j \in 1..H |-> img[j][W + 1 - i]]]
          [] rotateCode = "ROTATE_180" ->
               [i \in 1..H |-> [j \in 1..W |-> img[H + 1 - i][W + 1 - j]]]

\* cv2.flip(img, 1): horizontal flip
cv2_flip(img) ==
    [i \in 1..Rows(img) |-> [j \in 1..Cols(img) |-> img[i][Cols(img) + 1 - j]]]

\* load_training_data: the stored template of one variant
\* (rotation_configs, then add_template_variants)
TemplateVariant(template, rotation, inverted) ==
    LET base_rotated ==
            CASE rotation = 90  -> cv2_rotate(template, "ROTATE_90_CLOCKWISE")
              [] rotation = 180 -> cv2_rotate(template, "ROTATE_180")
              [] rotation = 270 -> cv2_rotate(template, "ROTATE_90_COUNTERCLOCKWISE")
              [] OTHER -> template
    IN  IF inverted THEN cv2_flip(base_rotated) ELSE base_rotated

\* TemplateDetector.normalize_region_for_ocr
normalize_region_for_ocr(region, rotation, inverted) ==
    LET effectiveRotation ==
            IF inverted
            THEN (IF rotation = 90 THEN 270
                  ELSE IF rotation = 270 THEN 90
                  ELSE rotation)
            ELSE rotation
    IN  IF effectiveRotation = 0 THEN region
        ELSE IF effectiveRotation = 90
             THEN cv2_rotate(region, "ROTATE_90_COUNTERCLOCKWISE")
        ELSE IF effectiveRotation = 180
             THEN cv2_rotate(region, "ROTATE_180")
        ELSE IF effectiveRotation = 270
             THEN cv2_rotate(region, "ROTATE_90_CLOCKWISE")
        ELSE region

\* extract_subclass_values: "Normalize region orientation for OCR"
SubclassOcrCrop(region, rotation, inverted) ==
    IF rotation # 0 THEN normalize_region_for_ocr(region, rotation, inverted)
    ELSE region

\* extract_text_from_detections: "Normalize region back to original orientation"
WholeBoxOcrCrop(region, rotation, inverted) ==
    IF rotation # 0 THEN normalize_region_for_ocr(region, rotation, inverted)
    ELSE region

\* detect_in_pdf, standard OCR on the whole detection box:
\* "Handle horizontal inversion first", "Then handle rotation"
ServerOcrCrop(region, rotation, inverted) ==
    LET flipped == IF inverted THEN cv2_flip(region) ELSE region
    IN  IF rotation # 0
        THEN (IF rotation = 90 THEN cv2_rotate(flipped, "ROTATE_90_COUNTERCLOCKWISE")
              ELSE IF rotation = 180 THEN cv2_rotate(flipped, "ROTATE_180")
              ELSE IF rotation = 270 THEN cv2_rotate(flipped, "ROTATE_90_CLOCKWISE")
              ELSE flipped)
        ELSE flipped

InitOcr ==
    /\ pc = "template"
    /\ IdleNms /\ IdleCross /\ IdleIou /\ IdleRegion /\ IdleText /\ IdleSys
    /\ upright \in Images
    /\ detected_rotation \in Rotations
    /\ detected_inverted \in BOOLEAN
    /\ region_img = <<>> /\ ocr_sub = <<>> /\ ocr_box = <<>> /\ ocr_srv = <<>>

\* detect(): the page shows the symbol as the matching template variant does
MatchVariant ==
    /\ pc = "template"
    /\ region_img' = TemplateVariant(upright, detected_rotation, detected_inverted)
    /\ pc' = "matched"
    /\ UNCHANGED <<upright, ocr_sub, ocr_box, ocr_srv,
                   detVars, nmsVars, crossVars, iouVars, regionVars, textVars, sysVars>>

\* extract_subclass_values prepares the crop of a sub-region
OcrSubclass ==
    /\ pc = "matched"
    /\ ocr_sub' = SubclassOcrCrop(region_img, detected_rotation, detected_inverted)
    /\ pc' = "ocr_sub"
    /\ UNCHANGED <<upright, region_img, ocr_box, ocr_srv,
                   detVars, nmsVars, crossVars, iouVars, regionVars, textVars, sysVars>>

\* extract_text_from_detections prepares the crop of the whole box
OcrWholeBox ==
    /\ pc = "ocr_sub"
    /\ ocr_box' = WholeBoxOcrCrop(region_img, detected_rotation, detected_inverted)
    /\ pc' = "ocr_box"
    /\ UNCHANGED <<upright, region_img, ocr_sub, ocr_srv,
                   detVars, nmsVars, crossVars, iouVars, regionVars, textVars, sysVars>>

\* detect_in_pdf prepares the crop of the whole box
OcrServer ==
    /\ pc = "ocr_box"
    /\ ocr_srv' = ServerOcrCrop(region_img, detected_rotation, detected_inverted)
    /\ pc' = "ocr_done"
    /\ UNCHANGED <<upright, region_img, ocr_sub, ocr_box,
                   detVars, nmsVars, crossVars, iouVars, regionVars, textVars, sysVars>>

NextOcr == MatchVariant \/ OcrSubclass \/ OcrWholeBox \/ OcrServer

SpecOcr == InitOcr /\ [][NextOcr]_vars

----
\* Text: a Python str is the sequence of its characters.

LowerLetters == <<"a","b","c","d","e","f","g","h","i","j","k","l","m",
                  "n","o","p","q","r","s","t","u","v","w","x","y","z">>
UpperLetters == <<"A","B","C","D","E","F","G","H","I","J","K","L","M",
                  "N","O","P","Q","R","S","T","U","V","W","X","Y","Z">>
DigitChars   == {"0","1","2","3","4","5","6","7","8","9"}

Range(f) == { f[i] : i \in DOMAIN f }
LowerSet == Range(LowerLetters)
UpperSet == Range(UpperLetters)

isalpha(c) == c \in LowerSet \/ c \in UpperSet
isdigit(c) == c \in DigitChars
isalnum(c) == isalpha(c) \/ isdigit(c)

\* str.upper(), one character
upper_char(c) ==
    IF c \in LowerSet
    THEN UpperLetters[CHOOSE i \in DOMAIN LowerLetters : LowerLetters[i] = c]
    ELSE c

\* str.upper()
upper(t) == [i \in DOMAIN t |-> upper_char(t[i])]

RECURSIVE lstrip(_)
lstrip(t) == IF t # <<>> /\ Head(t) = " " THEN lstrip(Tail(t)) ELSE t

RECURSIVE rstrip(_)
rstrip(t) == IF t # <<>> /\ t[Len(t)] = " "
             THEN rstrip(SubSeq(t, 1, Len(t) - 1)) ELSE t

\* str.strip()
strip(t) == rstrip(lstrip(t))

\* Python's  a in b  on strings
str_in(a, b) ==
    \E start \in 0 .. (Len(b) - Len(a)) : SubSeq(b, start + 1, start + Len(a)) = a

\* sum(1 for c1, c2 in zip(text1, text2) if c1 == c2)
RECURSIVE zip_matches(_, _)
zip_matches(t1, t2) ==
    IF t1 = <<>> \/ t2 = <<>> THEN 0
    ELSE (IF Head(t1) = Head(t2) THEN 1 ELSE 0) + zip_matches(Tail(t1), Tail(t2))

----
\* deduplicate_results (detector_server.py): text dedup across the upright
\* and the rotated OCR pass.  Coordinates are normalised page units; the model
\* counts them in hundredths.

\* center_dist_threshold = 0.02, in hundredths
center_dist_threshold == 2
\* iou_threshold = 0.3, in tenths
iou_threshold == 3
\* similarity > 0.7, in tenths
similarity_threshold == 7

MaxItems == 3

TI_101 == <<"T","I","-","1","0","1">>
TI_1O1 == <<"T","I","-","1","O","1">>
TX_2O2 == <<"T","X","-","2","O","2">>
ti_pad == <<" ","t","i">>

\* OCR texts: two readings of one tag, a fragment of it in lower case with
\* leading blank, an unrelated tag, and the empty string
DedupTexts == {TI_101, TI_1O1, ti_pad, TX_2O2, <<>>}

\* A word box, a small box on its centre, and the word box shifted right
WordBox    == BBox(10, 10, 10, 4)
CentreBox  == BBox(14, 11, 2, 2)
ShiftedBox == BBox(13, 10, 10, 4)

\* The upright pass reads the word box, at either confidence; the rotated
\* pass adds low-confidence readings of the other two boxes
TextItems ==
    [bbox : {WordBox}, text : DedupTexts, confidence : ConfLevels]
      \cup [bbox : {CentreBox, ShiftedBox}, text : {TI_1O1, TX_2O2, ti_pad},
            confidence : {1}]

\* center_dist < center_dist_threshold, on doubled centres
DedupCenterClose(b1, b2) ==
    LET dx == Cx2(b1) - Cx2(b2)
        dy == Cy2(b1) - Cy2(b2)
    IN  dx * dx + dy * dy < (2 * center_dist_threshold) * (2 * center_dist_threshold)

\* the inline IoU test:  x2 > x1 and y2 > y1  and  iou > iou_threshold
DedupIouHigh(b1, b2) ==
    LET x1 == Max(b1.x, b2.x)
        y1 == Max(b1.y, b2.y)
        x2 == Min(b1.x + b1.width, b2.x + b2.width)
        y2 == Min(b1.y + b1.height, b2.y + b2.height)
        intersection == (x2 - x1) * (y2 - y1)
        union == b1.width * b1.height + b2.width * b2.height - intersection
    IN  /\ x2 > x1 /\ y2 > y1
        /\ union > 0
        /\ 10 * intersection > iou_threshold * union

\* text1 == text2 or text1 in text2 or text2 in text1
TextContains(text1, text2) ==
    text1 = text2 \/ str_in(text1, text2) \/ str_in(text2, text1)

\* matches / max(len(text1), len(text2)) > 0.7, both texts non-empty
PositionSimilar_Never(text1, text2) == FALSE
PositionSimilar(text1, text2) ==
    /\ Len(text1) > 0 /\ Len(text2) > 0
    /\ 10 * zip_matches(text1, text2)
         > similarity_threshold * Max(Len(text1), Len(text2))

\* one pass of the inner loop body: does kept make item a duplicate
DedupIsDuplicate_IouUngated(item, kept) ==
    LET text1 == strip(upper(item.text))
        text2 == strip(upper(kept.text))
    IN  \/ /\ DedupCenterClose(item.bbox, kept.bbox)
           /\ TextContains(text1, text2) \/ PositionSimilar(text1, text2)
        \/ DedupIouHigh(item.bbox, kept.bbox)
DedupIsDuplicate(item, kept) ==
    LET text1 == strip(upper(item.text))
        text2 == strip(upper(kept.text))
    IN  \/ /\ DedupCenterClose(item.bbox, kept.bbox)
           /\ TextContains(text1, text2) \/ PositionSimilar(text1, text2)
        \/ /\ DedupIouHigh(item.bbox, kept.bbox)
           /\ TextContains(text1, text2)

\* the outer loop: <<keep, is_duplicate of every item so far>>
RECURSIVE DedupLoop(_, _, _)
DedupLoop(rest, kept_list, flags) ==
    IF rest = <<>> THEN <<kept_list, flags>>
    ELSE LET item == Head(rest)
             is_duplicate == \E k \in DOMAIN kept_list :
                                 DedupIsDuplicate(item, kept_list[k])
         IN  DedupLoop(Tail(rest),
                       IF is_duplicate THEN kept_list ELSE Append(kept_list, item),
                       Append(flags, is_duplicate))

deduplicate_results(results) ==
    IF results = <<>> THEN <<results, <<>>>>
    ELSE DedupLoop(SortByConfidence(results), <<>>, <<>>)

InitDedup == pc = "ocr_pass" /\ IdleGeom /\ IdleText /\ IdleSys

\* one more text item from either OCR pass joins all_results
AppendTextItem ==
    /\ pc = "ocr_pass"
    /\ Len(dd_results) < MaxItems
    /\ \E item \in TextItems : dd_results' = Append(dd_results, item)
    /\ UNCHANGED <<pc, dd_keep, dd_dup, fixVars, subVars, failVars, geomVars, sysVars>>

RunDedup ==
    /\ pc = "ocr_pass"
    /\ LET r == deduplicate_results(dd_results)
       IN  dd_keep' = r[1] /\ dd_dup' = r[2]
    /\ pc' = "dedup_done"
    /\ UNCHANGED <<dd_results, fixVars, subVars, failVars, geomVars, sysVars>>

NextDedup == AppendTextItem \/ RunDedup

SpecDedup == InitDedup /\ [][NextDedup]_vars

----
\* fix_ocr_with_format (detector.py): repair of OCR text against a format
\* template.

extra_letters    == 2
extra_digits     == 1
trailing_letters == 1

Section(type, count, char) == [type |-> type, count |-> count, char |-> char]

\* the parse loop: cur_type is "" for Python's None
RECURSIVE ParseLoop(_, _, _, _)
ParseLoop(rest, sections, cur_type, cur_count) ==
    IF rest = <<>>
    THEN IF cur_type # "" THEN Append(sections, Section(cur_type, cur_count, ""))
                          ELSE sections
    ELSE LET char    == Head(rest)
             flushed == IF cur_type # ""
                        THEN Append(sections, Section(cur_type, cur_count, ""))
                        ELSE sections
         IN  IF isalpha(char)
             THEN IF cur_type = "L"
                  THEN ParseLoop(Tail(rest), sections, "L", cur_count + 1)
                  ELSE ParseLoop(Tail(rest), flushed, "L", 1)
             ELSE IF isdigit(char)
             THEN IF cur_type = "N"
                  THEN ParseLoop(Tail(rest), sections, "N", cur_count + 1)
                  ELSE ParseLoop(Tail(rest), flushed, "N", 1)
             ELSE ParseLoop(Tail(rest), Append(flushed, Section("D", 0, char)), "", 0)

ParseSections(format_template) == ParseLoop(upper(format_template), <<>>, "", 0)

\* max_count of a letters or digits section
MaxCount_ExtraLettersEverywhere(sections, sec_idx) ==
    LET sec == sections[sec_idx]
    IN  IF sec.type = "L" THEN sec.count + extra_letters
                          ELSE sec.count + extra_digits
MaxCount_NoExtraDigit(sections, sec_idx) ==
    LET sec == sections[sec_idx]
    IN  IF sec.type = "L"
        THEN IF sec_idx = 1 \/ sections[sec_idx - 1].type = "D"
             THEN sec.count + extra_letters
             ELSE IF sec_idx = Len(sections) THEN sec.count + trailing_letters
                                             ELSE sec.count
        ELSE sec.count
MaxCount(sections, sec_idx) ==
    LET sec == sections[sec_idx]
    IN  IF sec.type = "L"
        THEN IF sec_idx = 1 \/ sections[sec_idx - 1].type = "D"
             THEN sec.count + extra_letters
             ELSE IF sec_idx = Len(sections) THEN sec.count + trailing_letters
                                             ELSE sec.count
        ELSE sec.count + extra_digits

\* the wrong-type test inside the while loop: a digit in a letters section,
\* a letter in a digits section
WrongTypeStops_OnlyUnconfusable(sec_type, char, consumed, base_count) ==
    IF sec_type = "L"
    THEN isdigit(char) /\ char \notin {"1", "0"}
    ELSE isalpha(char) /\ char \notin {"I", "O"}
WrongTypeStops(sec_type, char, consumed, base_count) ==
    IF sec_type = "L"
    THEN isdigit(char) /\ (consumed >= base_count \/ char \notin {"1", "0"})
    ELSE isalpha(char) /\ (consumed >= base_count \/ char \notin {"I", "O"})

\* letter correction (1 -> I, 0 -> O) and number correction (I -> 1, O -> 0)
Correction_None(sec_type, char) == char
Correction_LettersOnly(sec_type, char) ==
    IF sec_type = "L"
    THEN IF char = "1" THEN "I" ELSE IF char = "0" THEN "O" ELSE char
    ELSE char
Correction(sec_type, char) ==
    IF sec_type = "L"
    THEN IF char = "1" THEN "I" ELSE IF char = "0" THEN "O" ELSE char
    ELSE IF char = "I" THEN "1" ELSE IF char = "O" THEN "0" ELSE char

\* the while loop of one letters or digits section; text_idx counts the
\* characters already consumed, so the next character is text[text_idx + 1]
RECURSIVE ConsumeLoop(_, _, _, _, _, _, _)
ConsumeLoop(text, text_idx, sec_type, base_count, max_count, consumed, section_chars) ==
    IF ~(text_idx < Len(text) /\ consumed < max_count)
    THEN section_chars
    ELSE LET char == text[text_idx + 1]
         IN  IF ~isalnum(char) THEN section_chars
             ELSE IF WrongTypeStops(sec_type, char, consumed, base_count)
             THEN section_chars
             ELSE ConsumeLoop(text, text_idx + 1, sec_type, base_count, max_count,
                              consumed + 1,
                              Append(section_chars, Correction(sec_type, char)))

\* one trace entry: the section, where it started, how many input characters
\* it consumed and what it appended to the result
Step(sec, start, consumed, emitted) ==
    [type |-> sec.type, count |-> sec.count, char |-> sec.char,
     start |-> start, consumed |-> consumed, emitted |-> emitted]

\* a delimiter section that inserts the template's delimiter when it is missing
DelimiterStep_Inserts(text, text_idx, sec) ==
    IF text_idx < Len(text) /\ ~isalnum(text[text_idx + 1])
    THEN Step(sec, text_idx, 1, <<text[text_idx + 1]>>)
    ELSE Step(sec, text_idx, 0, <<sec.char>>)
DelimiterStep(text, text_idx, sec) ==
    IF text_idx < Len(text) /\ text[text_idx + 1] = sec.char
    THEN Step(sec, text_idx, 1, <<sec.char>>)
    ELSE IF text_idx < Len(text) /\ ~isalnum(text[text_idx + 1])
    THEN Step(sec, text_idx, 1, <<text[text_idx + 1]>>)
    ELSE Step(sec, text_idx, 0, <<>>)

\* a letters or digits section, with the padding of a lone letter
CountedStep(text, text_idx, sections, sec_idx) ==
    LET sec   == sections[sec_idx]
        chars == ConsumeLoop(text, text_idx, sec.type, sec.count,
                             MaxCount(sections, sec_idx), 0, <<>>)
        padded == IF sec.type = "L" /\ sec.count >= 2 /\ Len(chars) = 1
                  THEN Append(chars, "I") ELSE chars
    IN  Step(sec, text_idx, Len(chars), padded)

\* the loop over the sections: the trace so far
RECURSIVE SectionLoop(_, _, _, _, _)
SectionLoop(text, sections, sec_idx, text_idx, trace) ==
    IF sec_idx > Len(sections) THEN trace
    ELSE LET step == IF sections[sec_idx].type = "D"
                     THEN DelimiterStep(text, text_idx, sections[sec_idx])
                     ELSE CountedStep(text, text_idx, sections, sec_idx)
         IN  SectionLoop(text, sections, sec_idx + 1, text_idx + step.consumed,
                         Append(trace, step))

\* the remaining characters, as trailing letters
TrailingChars_Dropped(rest) == <<>>
TrailingChars(rest) ==
    [i \in DOMAIN rest |-> IF rest[i] = "1" THEN "I"
                           ELSE IF rest[i] = "0" THEN "O" ELSE rest[i]]

RECURSIVE JoinEmitted(_)
JoinEmitted(trace) ==
    IF trace = <<>> THEN <<>> ELSE Head(trace).emitted \o JoinEmitted(Tail(trace))

RECURSIVE TotalConsumed(_)
TotalConsumed(trace) ==
    IF trace = <<>> THEN 0 ELSE Head(trace).consumed + TotalConsumed(Tail(trace))

\* <<returned string, trace>>
fix_ocr_with_format(text, format_template) ==
    IF text = <<>> \/ format_template = <<>> THEN <<text, <<>>>>
    ELSE LET up    == upper(text)
             trace == SectionLoop(up, ParseSections(format_template), 1, 0, <<>>)
             done  == TotalConsumed(trace)
         IN  <<JoinEmitted(trace) \o TrailingChars(SubSeq(up, done + 1, Len(up))), trace>>

MaxText == 4

\* characters of the OCR text: a letter, a confusable letter, a confusable
\* digit, a digit, the delimiter
TextChars == {"A", "I", "1", "2", "-"}

RECURSIVE StringsUpTo(_, _)
StringsUpTo(chars, n) ==
    IF n = 0 THEN {<<>>}
    ELSE LET shorter == StringsUpTo(chars, n - 1)
         IN  shorter \cup { Append(t, c) : t \in shorter, c \in chars }

OcrTexts == StringsUpTo(TextChars, MaxText)

\* format templates: every arrangement of up to three sections of one or two
\* characters
FormatTemplates ==
    { <<>>,
      <<"A">>, <<"1">>, <<"-">>,
      <<"A","B">>, <<"A","1">>, <<"A","-">>, <<"1","A">>, <<"1","2">>, <<"1","-">>,
      <<"-","A">>, <<"-","1">>, <<"-","-">>,
      <<"A","B","C">>, <<"A","B","1">>, <<"A","B","-">>, <<"A","1","B">>,
      <<"A","1","2">>, <<"A","1","-">>, <<"A","-","B">>, <<"A","-","1">>,
      <<"1","A","B">>, <<"1","A","2">>, <<"1","A","-">>, <<"1","2","A">>,
      <<"1","2","3">>, <<"1","2","-">>, <<"1","-","A">>, <<"1","-","2">>,
      <<"-","A","B">>, <<"-","A","1">>, <<"-","1","A">>, <<"-","1","2">>,
      <<"A","B","-","1","2">>, <<"1","A","2","B">>, <<"A","1","B","2","C">> }

FI_12345 == <<"F","I","-","1","2","3","4","5">>
AB_123   == <<"A","B","-","1","2","3">>

\* the documented calls, a substituted delimiter, O/0 and lower case
FixExamples ==
    { << <<"F","1","-","I","2","3","4","5">>, FI_12345 >>,
      << <<"F","I","I","2","3","4","5">>, FI_12345 >>,
      << FI_12345, FI_12345 >>,
      << AB_123, AB_123 >>,
      << <<"A","B","/","1","2","3">>, AB_123 >>,
      << <<"0","B","-","O","2","I">>, AB_123 >>,
      << <<"a","b","-","1","2","3">>, <<"a","b","-","1","2","3">> >>,
      << <<"A","-","1","2","3">>, AB_123 >> }

FixInputs == (OcrTexts \X FormatTemplates) \cup FixExamples

InitFix ==
    /\ pc = "ocr_text"
    /\ \E input \in FixInputs : fix_text = input[1] /\ fix_format = input[2]
    /\ fix_result = <<>> /\ fix_trace = <<>>
    /\ IdleGeom /\ IdleSys /\ IdleDedup /\ IdleSub /\ IdleFail

CallFix ==
    /\ pc = "ocr_text"
    /\ LET r == fix_ocr_with_format(fix_text, fix_format)
       IN  fix_result' = r[1] /\ fix_trace' = r[2]
    /\ pc' = "fixed"
    /\ UNCHANGED <<fix_text, fix_format, dedupVars, subVars, failVars, geomVars, sysVars>>

NextFix == CallFix

SpecFix == InitFix /\ [][NextFix]_vars

----
\* extract_subclass_values (detector.py): OCR of every configured sub-region
\* of every detection.  Positions are page pixels.

MaxSubDets == 2

\* padding = 5
padding == 5

\* the region names of a class, in the order of the dict
RegionNames == <<"Tag", "Value">>

\* where each region lies relative to the detection, and its size, in pixels
RegionOffset == [Tag |-> [dx |-> 0, dy |-> 0, w |-> 4, h |-> 2],
                 Value |-> [dx |-> 12, dy |-> 0, w |-> 4, h |-> 2]]

\* what OCR reads in a region when it succeeds
RegionText == [Tag |-> TI_101, Value |-> <<"1","2">>]

\* a detection near the left edge or near the right edge of the page
SubDetections == [label : {"FI"}, page : Pages, px : {2, 14}, py : {2}]

\* run_paddle_ocr on the crop of one region: a text, or an exception
Readings == [{"Tag", "Value"} -> {"text", "raises"}]

\* len(range(n)[start:stop]) for a Python slice
SliceLen(n, start, stop) ==
    LET norm(k) == IF k < 0 THEN Max(0, k + n) ELSE Min(k, n)
    IN  Max(0, norm(stop) - norm(start))

\* region_img.size after padding, clamping and cropping
CropSize(det, name) ==
    LET o         == RegionOffset[name]
        region_x  == Max(0, det.px + o.dx - padding)
        region_y  == Max(0, det.py + o.dy - padding)
        region_w  == Min(RasterW - region_x, o.w + padding * 2)
        region_h  == Min(RasterH - region_y, o.h + padding * 2)
    IN  SliceLen(RasterH, region_y, region_y + region_h)
          * SliceLen(RasterW, region_x, region_x + region_w)

\* the body of the try block of one region, without per_subclass_formats:
\* <<value, raised>>
RegionValue(det, name, reading) ==
    IF CropSize(det, name) = 0 THEN <<<<>>, FALSE>>
    ELSE IF reading[name] = "raises" THEN <<<<>>, TRUE>>
    ELSE <<strip(RegionText[name]), FALSE>>

RECURSIVE RegionLoop_StopsAtError(_, _, _, _)
RECURSIVE RegionLoop(_, _, _, _)

\* the loop over subclass_regions.items(), each in its own try/except
\* (first: a loop that gives up at the first exception)
RegionLoop_StopsAtError(det, reading, k, subclass_values) ==
    IF k > Len(RegionNames) THEN subclass_values
    ELSE LET name == RegionNames[k]
             v    == RegionValue(det, name, reading)
             next == [n \in DOMAIN subclass_values \cup {name} |->
                         IF n = name THEN v[1] ELSE subclass_values[n]]
         IN  IF v[2] THEN next
             ELSE RegionLoop_StopsAtError(det, reading, k + 1, next)
RegionLoop(det, reading, k, subclass_values) ==
    IF k > Len(RegionNames) THEN subclass_values
    ELSE LET name == RegionNames[k]
             v    == RegionValue(det, name, reading)
         IN  RegionLoop(det, reading, k + 1,
                        [n \in DOMAIN subclass_values \cup {name} |->
                            IF n = name THEN v[1] ELSE subclass_values[n]])

\* det with det['subclassValues'] set
WithValues(det, values) ==
    [f \in DOMAIN det \cup {"subclassValues"} |->
        IF f = "subclassValues" THEN values ELSE det[f]]

\* one detection: page_rendered is FALSE when render_pdf_page_cached gives None
SubclassOfDetection(det, page_rendered, reading) ==
    IF ~page_rendered
    THEN WithValues(det, [n \in Range(RegionNames) |-> <<>>])
    ELSE WithValues(det, RegionLoop(det, reading, 1, <<>>))

extract_subclass_values(dets, world) ==
    [i \in DOMAIN dets |->
        SubclassOfDetection(dets[i], world.rendered[dets[i].page], world.reading[i])]

Worlds(n) == [rendered : [Pages -> BOOLEAN], reading : [1 .. n -> Readings]]

InitSub ==
    /\ pc = "subclass"
    /\ \E n \in 1 .. MaxSubDets :
           /\ sv_detections \in [1 .. n -> SubDetections]
           /\ sv_world \in Worlds(n)
    /\ sv_result = <<>>
    /\ IdleGeom /\ IdleSys /\ IdleDedup /\ IdleFix /\ IdleFail

CallExtractSubclassValues ==
    /\ pc = "subclass"
    /\ sv_result' = extract_subclass_values(sv_detections, sv_world)
    /\ pc' = "subclass_done"
    /\ UNCHANGED <<sv_detections, sv_world, dedupVars, fixVars, failVars, geomVars, sysVars>>

NextSub == CallExtractSubclassValues

SpecSub == InitSub /\ [][NextSub]_vars

----
\* OCR that is missing or fails: extract_text_from_detections (detector.py)
\* and the OCR step of detect_in_pdf (detector_server.py).  Confidences are
\* in thousandths.

\* det['ocr_confidence'] = 0.8, the default for subclass OCR
subclass_ocr_confidence == 800

\* the class with sub-regions configured
ClassesWithRegions == {"FI"}

OcrDetections == [label : Labels, page : Pages, px : {2, 14}, py : {2}]

\* what the engine does when asked to read a crop: it reads a text, its call
\* fails, or it cannot be initialised
EngineOutcomes ==
    { [kind |-> "text", text |-> TI_101, conf |-> 930],
      [kind |-> "text", text |-> ti_pad, conf |-> 650],
      [kind |-> "text", text |-> <<>>, conf |-> 0],
      [kind |-> "fails", text |-> <<>>, conf |-> 0],
      [kind |-> "init_raises", text |-> <<>>, conf |-> 0] }

\* OCR_AVAILABLE, render_pdf_page_cached giving a page, the engine, whether
\* extract_subclass_values raises outside its region loop, the region
\* readings, and the enableOCR setting of the model
OcrWorlds ==
    [available : BOOLEAN, rendered : BOOLEAN, engine : EngineOutcomes,
     subclass : {"values", "raises"}, reading : Readings, model_ocr : BOOLEAN]

\* d with d[k] = v
Put(d, k, v) == [f \in DOMAIN d \cup {k} |-> IF f = k THEN v ELSE d[f]]

\* what one per-detection step hands back
Returned(det) == [status |-> "returned", det |-> det]
Raised        == [status |-> "raised", det |-> <<>>]

\* run_paddle_ocr(region, return_confidence=True): run_paddle_ocr_single
\* swallows a failing engine call, get_paddle_ocr is called outside any try
run_paddle_ocr(engine) ==
    IF engine.kind = "init_raises" THEN [raised |-> TRUE, text |-> <<>>, conf |-> 0]
    ELSE IF engine.kind = "fails" THEN [raised |-> FALSE, text |-> <<>>, conf |-> 0]
    ELSE [raised |-> FALSE, text |-> engine.text, conf |-> engine.conf]

\* the six fields both branches of extract_text_from_detections set
OcrFields(det, text, raw, conf) ==
    Put(Put(Put(Put(Put(Put(det, "ocr_text", text), "ocr_raw", raw),
                        "ocr_confidence", conf), "format_score", 0),
            "text_touching_border", FALSE), "touch_confidence", 0)

\* extract_text_from_detections for one detection, per_class_formats None
extract_text_from_detections(det, world) ==
    IF ~world.available THEN det
    ELSE IF ~world.rendered THEN OcrFields(det, <<>>, <<>>, 0)
    ELSE LET r   == run_paddle_ocr(world.engine)
             raw == strip(r.text)
         IN  IF r.raised THEN OcrFields(det, <<>>, <<>>, 0)
                         ELSE OcrFields(det, raw, raw, r.conf)

\* detect_in_pdf, sub-region branch
ServerSubclassOcr(det, world) ==
    LET values == SubclassOfDetection(det, world.rendered, world.reading).subclassValues
        read   == Put(Put(det, "subclassValues", values), "ocr_text", values["Tag"])
        failed == Put(Put(det, "ocr_text", <<>>), "subclassValues", <<>>)
    IN  Put(IF world.subclass = "raises" THEN failed ELSE read,
            "ocr_confidence", subclass_ocr_confidence)

\* detect_in_pdf, whole-box branch, per_class_formats None
ServerWholeBoxOcr(det, world) ==
    LET r   == run_paddle_ocr(world.engine)
        raw == strip(r.text)
    IN  IF r.raised THEN Raised
        ELSE Returned(Put(Put(Put(det, "ocr_raw", raw), "ocr_text", raw),
                          "ocr_confidence", r.conf))

\* detect_in_pdf, the OCR step for one detection
ServerOcrStep(det, world) ==
    IF world.model_ocr /\ det.label \in ClassesWithRegions
    THEN Returned(ServerSubclassOcr(det, world))
    ELSE IF world.model_ocr
    THEN ServerWholeBoxOcr(det, world)
    ELSE Returned(Put(Put(Put(det, "ocr_text", <<>>), "ocr_raw", <<>>),
                      "ocr_confidence", 0))

Pending == [status |-> "pending", det |-> <<>>]

InitFail ==
    /\ pc = "ocr_step"
    /\ of_det \in OcrDetections
    /\ of_world \in OcrWorlds
    /\ of_extract = Pending /\ of_server = Pending
    /\ IdleGeom /\ IdleSys /\ IdleDedup /\ IdleFix /\ IdleSub

\* the command-line detector reads the detection
ExtractText ==
    /\ pc = "ocr_step"
    /\ of_extract = Pending
    /\ of_extract' = Returned(extract_text_from_detections(of_det, of_world))
    /\ UNCHANGED <<pc, of_det, of_world, of_server, dedupVars, fixVars, subVars, geomVars, sysVars>>

\* the server reads the detection; detector_server imports run_paddle_ocr
\* from detector, so it only runs with OCR installed
ServerOcr ==
    /\ pc = "ocr_step"
    /\ of_server = Pending
    /\ of_world.available
    /\ of_server' = ServerOcrStep(of_det, of_world)
    /\ UNCHANGED <<pc, of_det, of_world, of_extract, dedupVars, fixVars, subVars, geomVars, sysVars>>

NextFail == ExtractText \/ ServerOcr

SpecFail == InitFail /\ [][NextFail]_vars

----
\* TemplateDetector.load_training_data and TemplateDetector.detect
\* (detector.py).  self.templates is a dict: its keys in insertion order and
\* the template list of each key.

MaxAnns == 2

\* if num_matches > 1000
match_cap == 1000

\* template_gray of an annotation: two crops, neither symmetric
TrainCrops == { << <<0, 1>> >>, << <<0, 1>>, <<1, 1>> >> }

Annotations == [page : Pages, label : Labels, template_gray : TrainCrops]

\* the pages convert_from_path delivered: page 0, or both pages
PageImages == { {0}, {0, 1} }

\* rotation_configs
rotation_configs ==
    << [base_angle |-> 90,  cv_rotation |-> "ROTATE_90_CLOCKWISE"],
       [base_angle |-> 180, cv_rotation |-> "ROTATE_180"],
       [base_angle |-> 270, cv_rotation |-> "ROTATE_90_COUNTERCLOCKWISE"] >>

NoTemplates == [keys |-> <<>>, at |-> <<>>]

\* self.templates[label].append(t)
AppendTemplate(templates, label, t) ==
    [templates EXCEPT !.at[label] = Append(@, t)]

\* if label not in self.templates: self.templates[label] = []
InitLabel(templates, label) ==
    IF label \in DOMAIN templates.at THEN templates
    ELSE [keys |-> Append(templates.keys, label),
          at   |-> [l \in DOMAIN templates.at \cup {label} |->
                       IF l = label THEN <<>> ELSE templates.at[l]]]

\* a helper that stores the flipped copy without the rotation of its variant
add_template_variants_FlipUpright(templates, label, template_img, rotation, include_inverted) ==
    LET as_is == AppendTemplate(templates, label,
                     [image |-> template_img, rotation |-> rotation, inverted |-> FALSE])
    IN  IF include_inverted
        THEN AppendTemplate(as_is, label,
                 [image |-> cv2_flip(template_img), rotation |-> 0, inverted |-> TRUE])
        ELSE as_is
\* add_template_variants(label, template_img, rotation, inverted_base=False)
add_template_variants(templates, label, template_img, rotation, include_inverted) ==
    LET as_is == AppendTemplate(templates, label,
                     [image |-> template_img, rotation |-> rotation, inverted |-> FALSE])
    IN  IF include_inverted
        THEN AppendTemplate(as_is, label,
                 [image |-> cv2_flip(template_img), rotation |-> rotation, inverted |-> TRUE])
        ELSE as_is

RECURSIVE RotationLoop(_, _, _, _, _)
\* for base_angle, cv_rotation in rotation_configs
RotationLoop(templates, label, template_gray, include_inverted, k) ==
    IF k > Len(rotation_configs) THEN templates
    ELSE LET base_rotated == cv2_rotate(template_gray, rotation_configs[k].cv_rotation)
         IN  RotationLoop(
                 add_template_variants(templates, label, base_rotated,
                                       rotation_configs[k].base_angle, include_inverted),
                 label, template_gray, include_inverted, k + 1)

\* the body of "for ann in annotations"
AnnotationTemplates(templates, ann, page_images, multi_orientation, include_inverted) ==
    IF ann.page \notin page_images THEN templates
    ELSE LET original == add_template_variants(InitLabel(templates, ann.label), ann.label,
                                              ann.template_gray, 0, include_inverted)
         IN  IF multi_orientation
             THEN RotationLoop(original, ann.label, ann.template_gray, include_inverted, 1)
             ELSE original

RECURSIVE AnnotationLoop(_, _, _, _, _, _)
AnnotationLoop(templates, annotations, page_images, multi_orientation, include_inverted, k) ==
    IF k > Len(annotations) THEN templates
    ELSE AnnotationLoop(
             AnnotationTemplates(templates, annotations[k], page_images,
                                 multi_orientation, include_inverted),
             annotations, page_images, multi_orientation, include_inverted, k + 1)

\* load_training_data: the detector afterwards
load_training_data(self, annotations, page_images, multi_orientation, include_inverted) ==
    [self EXCEPT
        !.multi_orientation = multi_orientation,
        !.include_inverted  = include_inverted,
        !.templates = AnnotationLoop(self.templates, annotations, page_images,
                                     multi_orientation, include_inverted, 1)]

RECURSIVE Flatten(_, _)
\* for label, templates in self.templates.items(): for template_data in templates
Flatten(templates, k) ==
    IF k > Len(templates.keys) THEN <<>>
    ELSE LET label == templates.keys[k]
         IN  [i \in 1 .. Len(templates.at[label]) |->
                 [label |-> label, template |-> templates.at[label][i]]]
             \o Flatten(templates, k + 1)

\* what cv2.matchTemplate finds for one template on the page: the template is
\* larger than the page, or num_matches locations reach the threshold
HotOutcomes ==
    { [fits |-> FALSE, num_matches |-> 0],
      [fits |-> TRUE,  num_matches |-> 0],
      [fits |-> TRUE,  num_matches |-> match_cap],
      [fits |-> TRUE,  num_matches |-> match_cap + 1] }
RestCounts == {3, match_cap + 1}

\* a cap that already skips a template with exactly 1000 matches
TemplateCandidates_CapInclusive(outcome) ==
    IF ~outcome.fits THEN 0
    ELSE IF outcome.num_matches >= match_cap THEN 0
    ELSE outcome.num_matches
\* the number of detections one template appends to the candidate list
TemplateCandidates(outcome) ==
    IF ~outcome.fits THEN 0
    ELSE IF outcome.num_matches > match_cap THEN 0
    ELSE outcome.num_matches

\* detect up to its call of non_max_suppression: per template, in the order
\* of the loops, the tags and the number of its candidates
RawCandidates(templates, world) ==
    LET flat == Flatten(templates, 1)
    IN  [k \in 1 .. Len(flat) |->
            [label             |-> flat[k].label,
             detected_rotation |-> flat[k].template.rotation,
             detected_inverted |-> flat[k].template.inverted,
             count             |-> TemplateCandidates(world[k])]]

\* detect(image, threshold): the detector and the call's outcome afterwards
detect(self, world) ==
    [self EXCEPT !.raw = RawCandidates(self.templates, world),
                 !.world = world,
                 !.status = "returned"]

\* TemplateDetector(): __init__, and the training call about to be made
InitDetect ==
    /\ pc = "train"
    /\ \E n \in 1 .. MaxAnns :
       \E annotations \in [1 .. n -> Annotations] :
       \E page_images \in PageImages :
          detector = [multi_orientation |-> FALSE, include_inverted |-> FALSE,
                      templates |-> NoTemplates,
                      annotations |-> annotations, page_images |-> page_images,
                      world |-> <<>>, raw |-> <<>>, status |-> "idle"]
    /\ IdleGeom /\ IdleText
    /\ IdlePdfRun /\ IdleCache /\ IdleStore /\ IdleCrop

LoadTrainingData ==
    /\ pc = "train"
    /\ \E multi_orientation \in BOOLEAN, include_inverted \in BOOLEAN :
          detector' = load_training_data(detector, detector.annotations,
                          detector.page_images, multi_orientation, include_inverted)
    /\ pc' = "trained"
    /\ UNCHANGED <<geomVars, textVars, pdf_run, page_cache, threads, model_store, crop>>

DetectPage ==
    /\ pc = "trained"
    /\ LET n == Len(Flatten(detector.templates, 1))
       IN  \E hot \in 0 .. n, o \in HotOutcomes, r \in RestCounts :
              /\ (hot = 0) = (n = 0)
              /\ detector' = detect(detector,
                     [k \in 1 .. n |-> IF k = hot THEN o
                                       ELSE [fits |-> TRUE, num_matches |-> r]])
    /\ pc' = "detected"
    /\ UNCHANGED <<geomVars, textVars, pdf_run, page_cache, threads, model_store, crop>>

NextDetect == LoadTrainingData \/ DetectPage

SpecDetect == InitDetect /\ [][NextDetect]_vars

----
\* detect_in_pdf (detector_server.py): the loops over pages, models and
\* detections, then cross_model_nms.  Every detection dict carries an id
\* that stands for the identity of the dict object.

MaxPageDets == 1

PdfBoxes == { BBox(0, 0, 1, 1), BBox(0, 0, 2, 2) }

\* what detector.detect returns for one model on one page: at most
\* MaxPageDets detections, and no more than the pool of the call has room for
PageDetections(model_id, first_id, room) ==
    UNION { { [k \in 1 .. n |->
                 [bbox |-> l[k][1], label |-> ModelLabel(model_id),
                  confidence |-> l[k][2], id |-> first_id + k - 1]] :
              l \in [1 .. n -> PdfBoxes \X ConfLevels] } :
            n \in 0 .. Min(MaxPageDets, room) }

\* the OCR step of one detection and what it records about the engine call
PdfOcrStep(det, model_ocr, nms_runs) ==
    IF model_ocr /\ det.label \in ClassesWithRegions
    THEN [det   |-> Put(Put(det, "ocr_text", TI_101),
                        "ocr_confidence", subclass_ocr_confidence),
          calls |-> << [id |-> det.id, kind |-> "subclass", after_nms |-> nms_runs > 0] >>]
    ELSE IF model_ocr
    THEN [det   |-> Put(Put(det, "ocr_text", TI_101), "ocr_confidence", 930),
          calls |-> << [id |-> det.id, kind |-> "whole_box", after_nms |-> nms_runs > 0] >>]
    ELSE [det   |-> Put(Put(det, "ocr_text", <<>>), "ocr_confidence", 0),
          calls |-> <<>>]

RECURSIVE DetectionLoop(_, _, _, _, _)
\* for det in page_detections: ... all_detections.append(det)
DetectionLoop(run, page_detections, page_idx, model_id, k) ==
    IF k > Len(page_detections) THEN run
    ELSE LET det  == Put(Put(page_detections[k], "page", page_idx), "model_id", model_id)
             step == PdfOcrStep(det, run.model_ocr[model_id], run.nms_runs)
         IN  DetectionLoop(
                 [run EXCEPT !.all_detections = Append(@, step.det),
                             !.ocr_calls = @ \o step.calls],
                 page_detections, page_idx, model_id, k + 1)

\* one pass of "for model_id, detector, metadata in detectors" on one page
ModelOnPage(run, page_detections) ==
    LET page_idx == run.pages_to_process[run.page_pos]
        model_id == run.detectors[run.model_pos]
        looped   == DetectionLoop(run, page_detections, page_idx, model_id, 1)
        last     == run.model_pos = Len(run.detectors)
    IN  [looped EXCEPT !.model_pos = IF last THEN 1 ELSE @ + 1,
                       !.page_pos  = IF last THEN @ + 1 ELSE @]

LoopsDone(run) == run.page_pos > Len(run.pages_to_process)

\* all_detections = cross_model_nms(all_detections, iou_threshold=0.5); return
PdfReturn(run) ==
    [run EXCEPT !.all_detections = cross_model_nms(@),
                !.nms_runs = @ + 1,
                !.status = "returned"]

InitPdf ==
    /\ pc = "pdf"
    /\ \E pages \in { <<0>>, <<0, 1>> } :
       \E detectors \in { <<"FI_1">>, <<"FI_1", "TI_1">> } :
       \E model_ocr \in [ModelIds -> BOOLEAN] :
          pdf_run = [pages_to_process |-> pages, detectors |-> detectors,
                     model_ocr |-> model_ocr, page_pos |-> 1, model_pos |-> 1,
                     all_detections |-> <<>>, ocr_calls |-> <<>>,
                     nms_runs |-> 0, status |-> "running"]
    /\ IdleGeom /\ IdleText
    /\ IdleDetector /\ IdleCache /\ IdleStore /\ IdleCrop

\* detector.detect on one page, then OCR and pooling of what it found
DetectModelOnPage ==
    /\ pc = "pdf"
    /\ ~LoopsDone(pdf_run)
    /\ \E page_detections \in
            PageDetections(pdf_run.detectors[pdf_run.model_pos],
                           Len(pdf_run.all_detections) + 1,
                           MaxPool - Len(pdf_run.all_detections)) :
          pdf_run' = ModelOnPage(pdf_run, page_detections)
    /\ UNCHANGED <<pc, geomVars, textVars, detector, page_cache, threads, model_store, crop>>

\* the tail of detect_in_pdf
ReturnDetections ==
    /\ pc = "pdf"
    /\ LoopsDone(pdf_run)
    /\ pdf_run' = PdfReturn(pdf_run)
    /\ pc' = "pdf_done"
    /\ UNCHANGED <<geomVars, textVars, detector, page_cache, threads, model_store, crop>>

NextPdf == DetectModelOnPage \/ ReturnDetections

SpecPdf == InitPdf /\ [][NextPdf]_vars

----
\* The page cache (detector.py): render_pdf_page_cached and clear_page_cache.
\* _page_cache is a dict, so its entries are kept in insertion order; each
\* entry carries the stamp of its insertion.  A caller runs the function one
\* statement at a time: the server runs with threaded=True and the function
\* takes no lock.

MaxCalls == 3

\* _page_cache_max_size = 20
page_cache_max_size == 20

\* cache keys (pdf_path, page_num, dpi), numbered
RequestKeys == {1, page_cache_max_size + 1, page_cache_max_size + 2}

\* the cache after the pages 1 .. n were rendered one after the other
Prefilled(n) == [i \in 1 .. n |-> [key |-> i, born |-> i]]

CachedKeys(cache) == { cache[i].key : i \in DOMAIN cache }

IdleThread == [at |-> "idle", key |-> 0, oldest_key |-> 0, result |-> "none", calls |-> 0]

CallsMade == LET T == DOMAIN threads
             IN  IF T = {} THEN 0
                 ELSE IF T = {1} THEN threads[1].calls
                 ELSE threads[1].calls + threads[2].calls

\* a hit that moves the entry to the end of the dict
HitEntry_Refreshes(cache, key) ==
    SelectSeq(cache, LAMBDA e : e.key # key)
        \o SelectSeq(cache, LAMBDA e : e.key = key)
\* return _page_cache[cache_key]: the dict after a hit
HitEntry(cache, key) == cache

\* oldest_key = next(iter(_page_cache))
OldestKey(cache) == cache[1].key

\* del _page_cache[oldest_key]
DeleteKey(cache, key) == SelectSeq(cache, LAMBDA e : e.key # key)

\* _page_cache[cache_key] = page_img
StoreKey(cache, key) ==
    IF key \in CachedKeys(cache) THEN cache
    ELSE Append(cache, [key |-> key,
                        born |-> 1 + Max(0, IF cache = <<>> THEN 0
                                            ELSE cache[Len(cache)].born)])

\* render_pdf_page_cached is entered with a cache key
CallRender(t) ==
    /\ threads[t].at = "idle"
    /\ CallsMade < MaxCalls
    /\ \E key \in RequestKeys :
          threads' = [threads EXCEPT ![t] = [at |-> "test_hit", key |-> key,
                                             oldest_key |-> 0, result |-> "none",
                                             calls |-> @.calls + 1]]
    /\ UNCHANGED page_cache

\* if cache_key in _page_cache
TestHit(t) ==
    /\ threads[t].at = "test_hit"
    /\ threads' = [threads EXCEPT ![t].at =
                      IF threads[t].key \in CachedKeys(page_cache)
                      THEN "return_hit" ELSE "test_full"]
    /\ UNCHANGED page_cache

\* return _page_cache[cache_key]
ReturnHit(t) ==
    /\ threads[t].at = "return_hit"
    /\ IF threads[t].key \in CachedKeys(page_cache)
       THEN /\ page_cache' = HitEntry(page_cache, threads[t].key)
            /\ threads' = [threads EXCEPT ![t].at = "idle", ![t].result = "hit"]
       ELSE /\ threads' = [threads EXCEPT ![t].at = "idle", ![t].result = "KeyError"]
            /\ UNCHANGED page_cache

\* if len(_page_cache) >= _page_cache_max_size
TestFull(t) ==
    /\ threads[t].at = "test_full"
    /\ threads' = [threads EXCEPT ![t].at =
                      IF Len(page_cache) >= page_cache_max_size
                      THEN "pick_oldest" ELSE "render"]
    /\ UNCHANGED page_cache

\* oldest_key = next(iter(_page_cache))
PickOldest(t) ==
    /\ threads[t].at = "pick_oldest"
    /\ threads' = IF page_cache = <<>>
                  THEN [threads EXCEPT ![t].at = "idle", ![t].result = "StopIteration"]
                  ELSE [threads EXCEPT ![t].at = "evict",
                                       ![t].oldest_key = OldestKey(page_cache)]
    /\ UNCHANGED page_cache

\* del _page_cache[oldest_key]
Evict(t) ==
    /\ threads[t].at = "evict"
    /\ IF threads[t].oldest_key \in CachedKeys(page_cache)
       THEN /\ page_cache' = DeleteKey(page_cache, threads[t].oldest_key)
            /\ threads' = [threads EXCEPT ![t].at = "render"]
       ELSE /\ threads' = [threads EXCEPT ![t].at = "idle", ![t].result = "KeyError"]
            /\ UNCHANGED page_cache

\* pages = convert_from_path(...); if not pages: return None
Render(t) ==
    /\ threads[t].at = "render"
    /\ \E pages \in {"page", "nothing"} :
          threads' = IF pages = "nothing"
                     THEN [threads EXCEPT ![t].at = "idle", ![t].result = "None"]
                     ELSE [threads EXCEPT ![t].at = "store"]
    /\ UNCHANGED page_cache

\* _page_cache[cache_key] = page_img; return page_img
Store(t) ==
    /\ threads[t].at = "store"
    /\ page_cache' = StoreKey(page_cache, threads[t].key)
    /\ threads' = [threads EXCEPT ![t].at = "idle", ![t].result = "rendered"]

\* clear_page_cache(), by a caller that is not inside render_pdf_page_cached
ClearPageCache(t) ==
    /\ threads[t].at = "idle"
    /\ page_cache # <<>>
    /\ page_cache' = <<>>
    /\ UNCHANGED threads

RenderStep(t) ==
    \/ CallRender(t) \/ TestHit(t) \/ ReturnHit(t) \/ TestFull(t) \/ PickOldest(t)
    \/ Evict(t) \/ Render(t) \/ Store(t) \/ ClearPageCache(t)

notCacheVars == <<pc, geomVars, textVars, detector, pdf_run, model_store, crop>>

InitCache(T) ==
    /\ pc = "cache"
    /\ page_cache \in { Prefilled(n) : n \in {0, page_cache_max_size - 1, page_cache_max_size} }
    /\ threads = [t \in T |-> IdleThread]
    /\ IdleGeom /\ IdleText
    /\ IdleDetector /\ IdlePdfRun /\ IdleStore /\ IdleCrop

\* one caller after the other
InitSeq == InitCache({1})

NextSeq == RenderStep(1) /\ UNCHANGED notCacheVars

SpecSeq == InitSeq /\ [][NextSeq]_vars

\* two request threads of the Flask server
InitThreads == InitCache({1, 2})

NextThreads == \E t \in {1, 2} : RenderStep(t) /\ UNCHANGED notCacheVars

SpecThreads == InitThreads /\ [][NextThreads]_vars

----
\* The model cache (detector_server.py): load_detector, the import
\* endpoints, remove_example and clear_cache.  A file is known by the number
\* of the write that produced it, 0 when it does not exist.

MaxWrites == 2

NoFile == 0

\* the model ids found in an uploaded zip, and whether each has metadata
ZipEntries == [model_id : ModelIds, has_metadata : BOOLEAN]
Zips ==
    { z \in UNION { [1 .. n -> ZipEntries] : n \in 1 .. 2 } :
        \A i, j \in DOMAIN z : i # j => z[i].model_id # z[j].model_id }

\* where extracting a zip raises: nowhere, before the k-th .pkl is written,
\* or after it and before its metadata is written
FailPoints(z) ==
    { [k |-> 0, stage |-> "none"] } \cup
    [k : DOMAIN z, stage : {"pkl", "metadata"}]

\* the number of the next write: larger than that of any file on disk
store_stamp(files) ==
    1 + Max(Max(files["FI_1"].pkl, files["FI_1"].metadata),
            Max(files["TI_1"].pkl, files["TI_1"].metadata))

\* del loaded_detectors[model_id]
Forget(loaded, model_id) == [m \in DOMAIN loaded \ {model_id} |-> loaded[m]]

\* load_detector(model_id): the store afterwards, and what the call returned
load_detector(store, model_id) ==
    IF model_id \in DOMAIN store.loaded_detectors
    THEN [store EXCEPT !.last = [op |-> "load", model_id |-> model_id,
                                 returned |-> store.loaded_detectors[model_id]]]
    ELSE IF store.files[model_id].pkl = NoFile
    THEN [store EXCEPT !.last = [op |-> "load", model_id |-> model_id,
                                 returned |-> [pkl |-> NoFile, metadata |-> NoFile]]]
    ELSE [store EXCEPT
             !.loaded_detectors = Put(@, model_id, store.files[model_id]),
             !.last = [op |-> "load", model_id |-> model_id,
                       returned |-> store.files[model_id]]]

RECURSIVE ExtractLoop(_, _, _, _, _)
\* for pkl_file in pkl_files: the files on disk when the loop ends or raises
ExtractLoop(files, z, fail, overwrite, k) ==
    IF k > Len(z) THEN [files |-> files, raised |-> FALSE]
    ELSE LET e == z[k]
             skip == ~overwrite /\ files[e.model_id].pkl # NoFile
             with_pkl == [files EXCEPT ![e.model_id].pkl = store_stamp(files)]
             with_both == IF e.has_metadata
                          THEN [with_pkl EXCEPT ![e.model_id].metadata = store_stamp(files)]
                          ELSE with_pkl
         IN  IF skip THEN ExtractLoop(files, z, fail, overwrite, k + 1)
             ELSE IF fail.k = k /\ fail.stage = "pkl"
             THEN [files |-> files, raised |-> TRUE]
             ELSE IF fail.k = k /\ fail.stage = "metadata" /\ e.has_metadata
             THEN [files |-> with_pkl, raised |-> TRUE]
             ELSE ExtractLoop(with_both, z, fail, overwrite, k + 1)

\* import_models / import_models_overwrite after the request checks
ImportZip(store, z, fail, overwrite) ==
    LET done == ExtractLoop(store.files, z, fail, overwrite, 1)
        op   == IF overwrite THEN "import_overwrite" ELSE "import"
    IN  IF done.raised
        THEN [store EXCEPT !.files = done.files,
                           !.last = [op |-> op, status |-> 500]]
        ELSE [store EXCEPT !.files = done.files,
                           !.loaded_detectors = <<>>,
                           !.last = [op |-> op, status |-> 200]]

import_models(store, z, fail) == ImportZip(store, z, fail, FALSE)

import_models_overwrite(store, z, fail) == ImportZip(store, z, fail, TRUE)

\* what remove_example meets: the example is not there, it was the last one,
\* the PDF for retraining is gone, the retraining raises before the model is
\* saved or after it, or it succeeds
RemoveCases ==
    {"not_found", "last_example", "pdf_missing", "retrain_raises",
     "metadata_write_raises", "retrained"}

\* remove_example(model_id, example_id)
remove_example(store, model_id, case) ==
    LET f == store.files[model_id]
        resp(status) == [op |-> "remove_example", status |-> status]
        stamp == store_stamp(store.files)
    IN  IF f.metadata = NoFile THEN [store EXCEPT !.last = resp(404)]
        ELSE IF case = "not_found" THEN [store EXCEPT !.last = resp(404)]
        ELSE IF case = "last_example"
        THEN [store EXCEPT !.files[model_id] = [pkl |-> NoFile, metadata |-> NoFile],
                           !.loaded_detectors = Forget(@, model_id),
                           !.last = resp(200)]
        ELSE IF case = "pdf_missing" THEN [store EXCEPT !.last = resp(400)]
        ELSE IF case = "retrain_raises"
        THEN [store EXCEPT !.files[model_id].pkl = NoFile,
                           !.loaded_detectors = Forget(@, model_id),
                           !.last = resp(500)]
        ELSE IF case = "metadata_write_raises"
        THEN [store EXCEPT !.files[model_id].pkl = stamp,
                           !.loaded_detectors = Forget(@, model_id),
                           !.last = resp(500)]
        ELSE [store EXCEPT !.files[model_id] = [pkl |-> stamp, metadata |-> stamp],
                           !.loaded_detectors = Forget(@, model_id),
                           !.last = resp(200)]

\* clear_cache()
clear_cache(store) ==
    [store EXCEPT !.loaded_detectors = <<>>,
                  !.last = [op |-> "clear_cache", status |-> 200]]

InitStore ==
    /\ pc = "serve"
    /\ \E present \in SUBSET ModelIds :
          model_store =
              [files |-> [m \in ModelIds |->
                             IF m \in present THEN [pkl |-> 1, metadata |-> 1]
                             ELSE [pkl |-> NoFile, metadata |-> NoFile]],
               loaded_detectors |-> <<>>,
               writes |-> 0,
               last |-> [op |-> "start", status |-> 200]]
    /\ IdleGeom /\ IdleText
    /\ IdleDetector /\ IdlePdfRun /\ IdleCache /\ IdleCrop

notStoreVars == <<pc, geomVars, textVars, detector, pdf_run, page_cache, threads, crop>>

\* a request handler has written or deleted model files
Wrote(store, after) ==
    IF after.files = store.files THEN after
    ELSE [after EXCEPT !.writes = @ + 1]

LoadDetector ==
    /\ pc = "serve"
    /\ \E m \in ModelIds : model_store' = load_detector(model_store, m)
    /\ UNCHANGED notStoreVars

ImportModels ==
    /\ pc = "serve"
    /\ model_store.writes < MaxWrites
    /\ \E z \in Zips : \E fail \in FailPoints(z) :
          model_store' = Wrote(model_store, import_models(model_store, z, fail))
    /\ UNCHANGED notStoreVars

ImportModelsOverwrite ==
    /\ pc = "serve"
    /\ model_store.writes < MaxWrites
    /\ \E z \in Zips : \E fail \in FailPoints(z) :
          model_store' = Wrote(model_store, import_models_overwrite(model_store, z, fail))
    /\ UNCHANGED notStoreVars

RemoveExample ==
    /\ pc = "serve"
    /\ model_store.writes < MaxWrites
    /\ \E m \in ModelIds, case \in RemoveCases :
          model_store' = Wrote(model_store, remove_example(model_store, m, case))
    /\ UNCHANGED notStoreVars

ClearCache ==
    /\ pc = "serve"
    /\ model_store' = clear_cache(model_store)
    /\ UNCHANGED notStoreVars

NextStore ==
    LoadDetector \/ ImportModels \/ ImportModelsOverwrite \/ RemoveExample \/ ClearCache

SpecStore == InitStore /\ [][NextStore]_vars

----
\* extract_subclass_values (detector.py): the crop rectangle of one region of
\* one detection, from the region mapping to the clamp, for two calls that
\* are handed different training_box_size arguments.

\* detection boxes, also boxes that reach or pass the right and lower edge
CropBoxes ==
    { BBox(x, y, w, 1) : x \in 0 .. GridUnits, y \in {0, GridUnits}, w \in 1 .. MaxSide }

\* regions of one unit, and the region that fills the training box
CropRels ==
    { r \in RelRects : r[3] = 1 /\ r[4] = 1 } \cup { <<0, 0, RelUnits, RelUnits>> }

\* model_training_box_sizes.get(label, None)
None == [none |-> TRUE]
TrainingBoxSizes == { None, [width |-> 1, height |-> 1], [width |-> 2, height |-> 1] }

\* a rectangle whose width follows the width of the training box
CropRectangle_ScaledToTrainingBox(region, bbox, rotation, inverted, training_box_size, w, h) ==
    LET px       == RegionRect(region, bbox, rotation, inverted, w, h).px
        scaled_w == IF training_box_size = None THEN px[3]
                    ELSE IntTrunc(px[3] * training_box_size.width, bbox.width)
        region_x == Max(0, px[1] - padding)
        region_y == Max(0, px[2] - padding)
    IN  [x |-> region_x, y |-> region_y,
         w |-> Min(w - region_x, scaled_w + padding * 2),
         h |-> Min(h - region_y, px[4] + padding * 2)]
\* region_x, region_y, region_w, region_h after "Small padding for OCR
\* clarity" and "Clamp to page bounds"
CropRectangle(region, bbox, rotation, inverted, training_box_size, w, h) ==
    LET px       == RegionRect(region, bbox, rotation, inverted, w, h).px
        region_x == Max(0, px[1] - padding)
        region_y == Max(0, px[2] - padding)
    IN  [x |-> region_x, y |-> region_y,
         w |-> Min(w - region_x, px[3] + padding * 2),
         h |-> Min(h - region_y, px[4] + padding * 2)]

NoCrop == [x |-> 0, y |-> 0, w |-> 0, h |-> 0]

InitCrop ==
    /\ pc = "crop"
    /\ \E rel \in CropRels, bbox \in CropBoxes, rotation \in Rotations,
          inverted \in BOOLEAN, new_format \in BOOLEAN :
       \E size1 \in TrainingBoxSizes : \E size2 \in TrainingBoxSizes \ {size1} :
          crop = [region |-> IF new_format THEN NewFormatRegion(rel)
                                           ELSE OldFormatRegion(rel),
                  bbox |-> bbox,
                  detected_rotation |-> rotation, detected_inverted |-> inverted,
                  training_box_size |-> size1, other_box_size |-> size2,
                  rect |-> NoCrop, other_rect |-> NoCrop]
    /\ IdleGeom /\ IdleText
    /\ IdleDetector /\ IdlePdfRun /\ IdleCache /\ IdleStore

notCropVars == <<geomVars, textVars, detector, pdf_run, page_cache, threads, model_store>>

\* the call with training_box_size
CropRegion ==
    /\ pc = "crop"
    /\ crop' = [crop EXCEPT !.rect =
                   CropRectangle(crop.region, crop.bbox, crop.detected_rotation,
                                 crop.detected_inverted, crop.training_box_size,
                                 RasterW, RasterH)]
    /\ pc' = "cropped"
    /\ UNCHANGED notCropVars

\* the same call with the other training_box_size
CropRegionAgain ==
    /\ pc = "cropped"
    /\ crop' = [crop EXCEPT !.other_rect =
                   CropRectangle(crop.region, crop.bbox, crop.detected_rotation,
                                 crop.detected_inverted, crop.other_box_size,
                                 RasterW, RasterH)]
    /\ pc' = "cropped_again"
    /\ UNCHANGED notCropVars

NextCrop == CropRegion \/ CropRegionAgain

SpecCrop == InitCrop /\ [][NextCrop]_vars

----
\* C1: single-model NMS is idempotent: suppressing its own output returns
\* the same detections in the same order.
C1_NmsIdempotent == pc = "renms" => keep2 = keep

\* C1 witness: a run that dropped a candidate and kept two of equal
\* confidence has been suppressed a second time.
C1_Witness ==
    /\ pc = "renms"
    /\ Len(keep) = 2
    /\ Len(detections) = 3
    /\ keep[1].confidence = keep[2].confidence

\* number of entries of s equal to d
Count(s, d) == Cardinality({ i \in 1..Len(s) : s[i] = d })

\* the claim's distance test: centre of d within 0.5 x max(width, height)
\* of the centre of k
WithinHalfSize(k, d) ==
    (Cx2(k.bbox) - Cx2(d.bbox)) * (Cx2(k.bbox) - Cx2(d.bbox))
  + (Cy2(k.bbox) - Cy2(d.bbox)) * (Cy2(k.bbox) - Cy2(d.bbox))
  < Max(k.bbox.width, k.bbox.height) * Max(k.bbox.width, k.bbox.height)

\* C2 (as stated): in the output of single-model NMS no two kept
\* detections, of equal or different labels, have the later (lower
\* confidence) one's centre within 0.5 x max(width, height) of the earlier.
C2_NoCloseCentersAnyLabel ==
    pc = "nms" =>
        \A i, j \in 1..Len(keep) :
            i < j => ~WithinHalfSize(keep[i], keep[j])

\* C2 (amended): a keeper suppresses the candidates of its own label whose
\* centre is within 0.5 x max(width, height), and the candidates of any
\* label whose IoU is >= 0.5; kept detections of equal label are never
\* that close, and none of the dropped candidates lacks a suppressing keeper.
C2_NoCloseCentersSameLabel ==
    pc = "nms" =>
        /\ \A i, j \in 1..Len(keep) :
              i < j =>
                /\ keep[i].confidence >= keep[j].confidence
                /\ keep[i].label = keep[j].label => ~WithinHalfSize(keep[i], keep[j])
                /\ ~IouAtLeastHalf(iou(keep[i].bbox, keep[j].bbox))
        /\ \A n \in 1..Len(detections) :
              LET d == detections[n]
              IN  Count(keep, d) < Count(detections, d) =>
                    \E i \in 1..Len(keep) :
                        \/ (keep[i].label = d.label /\ WithinHalfSize(keep[i], d))
                        \/ IouAtLeastHalf(iou(keep[i].bbox, d.bbox))

\* C2 witness: two kept detections of different labels whose centres are
\* within the distance, and a same-label candidate dropped for its centre.
C2_Witness ==
    /\ pc = "nms"
    /\ Len(keep) = 2
    /\ keep[1].label # keep[2].label
    /\ WithinHalfSize(keep[1], keep[2])
    /\ Len(detections) = 3
    /\ \E n \in 1..3 :
          /\ Count(keep, detections[n]) = 0
          /\ detections[n].label = keep[1].label
          /\ ~IouAtLeastHalf(iou(keep[1].bbox, detections[n].bbox))
          /\ ~IouAtLeastHalf(iou(keep[2].bbox, detections[n].bbox))

\* C3: cross-model NMS keeps, on every page, the detection of strictly
\* highest confidence, and every dropped detection is suppressed (centre
\* within half the keeper's size, or IoU >= 0.5) by a kept detection of the
\* same page whose confidence is at least its own.
C3_CrossKeepsBest ==
    pc = "cross" =>
        /\ \A n \in 1..Len(all_detections) :
              LET d == all_detections[n]
              IN  (\A m \in 1..Len(all_detections) :
                      (m # n /\ all_detections[m].page = d.page)
                          => all_detections[m].confidence < d.confidence)
                  => Count(filtered, d) = 1
        /\ \A n \in 1..Len(all_detections) :
              LET d == all_detections[n]
              IN  Count(filtered, d) < Count(all_detections, d) =>
                    \E i \in 1..Len(filtered) :
                        /\ filtered[i].page = d.page
                        /\ filtered[i].confidence >= d.confidence
                        /\ \/ WithinHalfSize(filtered[i], d)
                           \/ IouAtLeastHalf(calculate_iou(filtered[i].bbox, d.bbox))
        /\ \A i \in 1..Len(filtered) :
              Count(filtered, filtered[i]) <= Count(all_detections, filtered[i])

\* C3 witness: three detections on one page, the best one kept, one
\* dropped, and a third one kept although a dropped one would suppress it.
C3_Witness ==
    /\ pc = "cross"
    /\ Len(all_detections) = 3
    /\ Len(filtered) = 2
    /\ \A n \in 1..3 : all_detections[n].page = 0
    /\ filtered[1].confidence > filtered[2].confidence
    /\ \E n \in 1..3 :
          /\ Count(filtered, all_detections[n]) = 0
          /\ WithinHalfSize(all_detections[n], filtered[2])

\* C4: the output of cross-model NMS restricted to a page is the result of
\* the algorithm on that page's detections alone.
C4_PagePartition ==
    pc = "cross" =>
        \A p \in Pages :
            SelectSeq(filtered, LAMBDA d : d.page = p)
              = cross_model_nms(SelectSeq(all_detections, LAMBDA d : d.page = p))

\* C4 witness: detections of two pages, interleaved, where a detection
\* survives next to a higher-confidence one of the other page that would
\* suppress it on the same page.
C4_Witness ==
    /\ pc = "cross"
    /\ Len(all_detections) = 3
    /\ all_detections[1].page = 1
    /\ all_detections[2].page = 0
    /\ all_detections[3].page = 1
    /\ \E i, j \in 1..Len(filtered) :
          /\ filtered[i].page # filtered[j].page
          /\ filtered[i].confidence > filtered[j].confidence
          /\ WithinHalfSize(filtered[i], filtered[j])

\* C5: two detections of different models on one page, the centre of the
\* lower-confidence one within half the size of the higher-confidence one:
\* cross-model NMS returns exactly the higher-confidence detection.
C5_PairKeepsHigher ==
    (pc = "cross" /\ Len(all_detections) = 2) =>
        \A hi, lo \in 1..2 :
            ( /\ all_detections[hi].page = all_detections[lo].page
              /\ all_detections[hi].model_id # all_detections[lo].model_id
              /\ all_detections[hi].confidence > all_detections[lo].confidence
              /\ WithinHalfSize(all_detections[hi], all_detections[lo]) )
            => filtered = <<all_detections[hi]>>

\* C5 witness: the pair has been pooled lower-confidence first, labels and
\* models differ, the IoU is below 0.5, and only the higher one is returned.
C5_Witness ==
    /\ pc = "cross"
    /\ Len(all_detections) = 2
    /\ all_detections[1].page = all_detections[2].page
    /\ all_detections[1].model_id # all_detections[2].model_id
    /\ all_detections[1].label # all_detections[2].label
    /\ all_detections[1].confidence < all_detections[2].confidence
    /\ WithinHalfSize(all_detections[2], all_detections[1])
    /\ ~IouAtLeastHalf(calculate_iou(all_detections[2].bbox, all_detections[1].bbox))
    /\ filtered = <<all_detections[2]>>

\* the interiors of two boxes do not intersect
InteriorsDisjoint(a, b) ==
    \/ a.width = 0 \/ a.height = 0 \/ b.width = 0 \/ b.height = 0
    \/ a.x + a.width <= b.x \/ b.x + b.width <= a.x
    \/ a.y + a.height <= b.y \/ b.y + b.height <= a.y

\* C10: for both IoU functions iou(a,a) = 1 for a box of positive width
\* and height, iou(a,b) = 0 when the interiors do not intersect, and the
\* result is never negative.
C10_IouIdentityAndDisjoint ==
    pc = "iou_done" =>
        \A r \in {iou_det, iou_srv} :
            /\ r.den > 0 /\ r.num >= 0
            /\ (box1 = box2 /\ box1.width > 0 /\ box1.height > 0) => r.num = r.den
            /\ InteriorsDisjoint(box1, box2) => r.num = 0
            /\ ~InteriorsDisjoint(box1, box2) => r.num > 0

\* C10 witness: both functions have been applied to two boxes that only
\* touch along an edge.
C10_Witness ==
    /\ pc = "iou_done"
    /\ box1.width > 0 /\ box1.height > 0 /\ box2.width > 0 /\ box2.height > 0
    /\ box1.x + box1.width = box2.x
    /\ box1.y = box2.y
    /\ iou_det.num = 0 /\ iou_srv.num = 0

\* C6 (as stated): mapping through (r, m) and then through
\* (360 - r mod 360, m) gives the original relative rectangle, for every
\* rotation r and mirror state m.
C6_RoundTripOppositeRotation ==
    (pc = "back" /\ back_rotation = (360 - detected_rotation) % 360)
        => rel_back = rel_region

\* C6 (amended): the round trip through (360 - r mod 360, m) gives the
\* original rectangle when the detection is not mirrored or r is 0 or 180;
\* for a mirrored detection with r = 90 or 270 the mapping is undone by
\* the mapping for the same (r, m) and by no other rotation.
C6_RoundTripInverse ==
    pc = "back" =>
        LET mirroredQuarter == detected_inverted /\ detected_rotation \in {90, 270}
            inverse == IF mirroredQuarter THEN detected_rotation
                       ELSE (360 - detected_rotation) % 360
        IN  /\ back_rotation = inverse => rel_back = rel_region
            /\ (mirroredQuarter /\ back_rotation = (360 - detected_rotation) % 360)
                  => rel_back = <<RelUnits - rel_region[1] - rel_region[3],
                                  RelUnits - rel_region[2] - rel_region[4],
                                  rel_region[3], rel_region[4]>>

\* C6 witness: an off-centre, non-square region of a mirrored detection at
\* 90 degrees comes back after a second mapping with 90 degrees.
C6_Witness ==
    /\ pc = "back"
    /\ detected_inverted /\ detected_rotation = 90 /\ back_rotation = 90
    /\ rel_region = <<0, 1, 2, 1>>
    /\ rect_new.rel # rel_region
    /\ rel_back = rel_region

\* C7: the relative rectangle is rotated by the detected rotation
\* (90: (1-y-h, x, h, w); 180: (1-x-w, 1-y-h, w, h); 270: (y, 1-x-w, h, w);
\* 0: unchanged), then x -> 1-x-w when mirrored, and the result is mapped
\* through the detection box: abs = det + rel * det size, in pixels.
C7_RotateThenMirror ==
    pc \in {"mapped", "back"} =>
        LET x == rel_region[1]
            y == rel_region[2]
            w == rel_region[3]
            h == rel_region[4]
            rot == CASE detected_rotation = 90  -> <<RelUnits - y - h, x, h, w>>
                     [] detected_rotation = 180 -> <<RelUnits - x - w, RelUnits - y - h, w, h>>
                     [] detected_rotation = 270 -> <<y, RelUnits - x - w, h, w>>
                     [] OTHER -> <<x, y, w, h>>
            rel == IF detected_inverted
                   THEN <<RelUnits - rot[1] - rot[3], rot[2], rot[3], rot[4]>>
                   ELSE rot
            D == RelUnits * GridUnits
        IN  \A rect \in {rect_new, rect_old} :
              /\ rect.rel = rel
              /\ rect.px = << ((det_bbox.x * RelUnits + rel[1] * det_bbox.width) * RasterW) \div D,
                              ((det_bbox.y * RelUnits + rel[2] * det_bbox.height) * RasterH) \div D,
                              (rel[3] * det_bbox.width * RasterW) \div D,
                              (rel[4] * det_bbox.height * RasterH) \div D >>

\* C7 witness: a mirrored detection at 90 degrees, where mirroring before
\* the rotation would give another rectangle.
C7_Witness ==
    /\ pc = "mapped"
    /\ detected_inverted /\ detected_rotation = 90
    /\ rel_region = <<0, 0, 1, 2>>
    /\ rect_new.rel = <<0, 0, 2, 1>>
    /\ det_bbox.x > 0

\* C9: for equal relative coordinates, detection box, rotation, mirror
\* flag and raster size the legacy-format path and the current-format path
\* compute the same pixel rectangle.
C9_FormatsAgree ==
    pc \in {"mapped", "back"} => rect_old.px = rect_new.px

\* C9 witness: both paths have mapped an asymmetric region of a mirrored,
\* rotated detection to a rectangle that differs from the unrotated one.
C9_Witness ==
    /\ pc = "mapped"
    /\ detected_inverted /\ detected_rotation = 270
    /\ rel_region = <<1, 0, 1, 2>>
    /\ rect_old.px = rect_new.px
    /\ rect_old.px # ToPixelsOld(rel_region, det_bbox, RasterW, RasterH)

\* the crop turned back by the given rotation, pixels never mirrored
RotatedBack(img, rotation) ==
    CASE rotation = 90  -> cv2_rotate(img, "ROTATE_90_COUNTERCLOCKWISE")
      [] rotation = 180 -> cv2_rotate(img, "ROTATE_180")
      [] rotation = 270 -> cv2_rotate(img, "ROTATE_90_CLOCKWISE")
      [] OTHER -> img

\* C8: in every OCR path the crop handed to OCR is the page crop rotated,
\* never flipped: by the detected rotation undone, with 90 and 270 swapped
\* when the detection is mirrored; for a detection that is not mirrored
\* the result is the upright training crop.
C8_NeverFlipsCrop ==
    pc = "ocr_done" =>
        LET undone == IF detected_inverted /\ detected_rotation \in {90, 270}
                      THEN 360 - detected_rotation
                      ELSE detected_rotation
        IN  \A out \in {ocr_sub, ocr_box, ocr_srv} :
              /\ out = RotatedBack(region_img, undone)
              /\ ~detected_inverted => out = upright

\* ---- deduplicate_results

DedupRan == pc = "dedup_done"
DedupSorted == SortByConfidence(dd_results)
Normalised(item) == strip(upper(item.text))

\* indices of the sorted items that were kept before item i was examined
KeptBefore(i) == { j \in 1 .. (i - 1) : ~dd_dup[j] }

\* number of positions at which both texts have the same character
SamePositions(t1, t2) ==
    Cardinality({ k \in 1 .. Min(Len(t1), Len(t2)) : t1[k] = t2[k] })

EqualOrSubstring(t1, t2) ==
    \/ t1 = t2
    \/ \E a \in 1 .. (Len(t2) + 1) : \E b \in 0 .. Len(t2) : SubSeq(t2, a, b) = t1
    \/ \E a \in 1 .. (Len(t1) + 1) : \E b \in 0 .. Len(t1) : SubSeq(t1, a, b) = t2

RatioAbove70(t1, t2) ==
    /\ Max(Len(t1), Len(t2)) > 0
    /\ 10 * SamePositions(t1, t2) > 7 * Max(Len(t1), Len(t2))

\* squared centre distance below 0.02^2, in hundredths (centres doubled)
CentersWithin2(b1, b2) ==
    (Cx2(b1) - Cx2(b2)) * (Cx2(b1) - Cx2(b2))
      + (Cy2(b1) - Cy2(b2)) * (Cy2(b1) - Cy2(b2)) < 16

IouAbove30(b1, b2) ==
    LET f == iou(b1, b2) IN 10 * f.num > 3 * f.den

\* C11: text similarity gates every geometric match: an item whose
\* normalised text is neither equal to, nor a substring or superstring of, nor
\* position-wise similar (> 0.7) to the text of any item kept before it is
\* kept, whatever its centre distance or IoU to the kept items.
C11_TextGatesGeometry ==
    DedupRan =>
        \A i \in DOMAIN DedupSorted :
            (\A j \in KeptBefore(i) :
                 /\ ~EqualOrSubstring(Normalised(DedupSorted[i]), Normalised(DedupSorted[j]))
                 /\ ~RatioAbove70(Normalised(DedupSorted[i]), Normalised(DedupSorted[j])))
            => /\ ~dd_dup[i]
               /\ \E k \in DOMAIN dd_keep : dd_keep[k] = DedupSorted[i]

\* an unrelated text overlapping a kept item by IoU > 0.3 and another one
\* sitting on a kept item's centre were both examined, and kept
C11_Witness ==
    /\ DedupRan
    /\ \E i \in DOMAIN DedupSorted : \E j \in KeptBefore(i) :
           /\ IouAbove30(DedupSorted[i].bbox, DedupSorted[j].bbox)
           /\ ~EqualOrSubstring(Normalised(DedupSorted[i]), Normalised(DedupSorted[j]))
           /\ ~RatioAbove70(Normalised(DedupSorted[i]), Normalised(DedupSorted[j]))
           /\ ~dd_dup[i]
    /\ \E i \in DOMAIN DedupSorted : \E j \in KeptBefore(i) :
           /\ CentersWithin2(DedupSorted[i].bbox, DedupSorted[j].bbox)
           /\ ~EqualOrSubstring(Normalised(DedupSorted[i]), Normalised(DedupSorted[j]))
           /\ ~dd_dup[i]

\* the drop condition of one candidate against one kept item
DropCondition(item, kept) ==
    LET t1 == Normalised(item)
        t2 == Normalised(kept)
    IN  \/ /\ CentersWithin2(item.bbox, kept.bbox)
           /\ EqualOrSubstring(t1, t2) \/ RatioAbove70(t1, t2)
        \/ /\ IouAbove30(item.bbox, kept.bbox)
           /\ EqualOrSubstring(t1, t2)

\* C12: a candidate is dropped exactly when some item kept before it
\* (confidence higher or equal) has centre distance < 0.02 and similar text
\* (equal, substring, or position ratio > 0.7), or IoU > 0.3 and equal or
\* substring text; the result is the kept items in order; and of "TI-101" and
\* "TI-1O1" at near-identical centres exactly one is returned, the one with
\* the higher confidence.
C12_DropsExactlyOnMatch ==
    DedupRan =>
        /\ Len(dd_dup) = Len(DedupSorted)
        /\ \A i \in DOMAIN DedupSorted :
               /\ dd_dup[i] <=> \E j \in KeptBefore(i) :
                                    DropCondition(DedupSorted[i], DedupSorted[j])
               /\ \A j \in KeptBefore(i) :
                      DedupSorted[j].confidence >= DedupSorted[i].confidence
        /\ Len(dd_keep) = Cardinality({ i \in DOMAIN DedupSorted : ~dd_dup[i] })
        /\ \A k \in DOMAIN dd_keep : \E i \in DOMAIN DedupSorted :
               ~dd_dup[i] /\ dd_keep[k] = DedupSorted[i]
        /\ ( /\ Len(dd_results) = 2
             /\ {dd_results[1].text, dd_results[2].text} = {TI_101, TI_1O1}
             /\ CentersWithin2(dd_results[1].bbox, dd_results[2].bbox) )
           => /\ Len(dd_keep) = 1
              /\ dd_keep[1].confidence >= dd_results[1].confidence
              /\ dd_keep[1].confidence >= dd_results[2].confidence
              /\ dd_results[1].confidence # dd_results[2].confidence
                   => dd_keep[1] \in {dd_results[1], dd_results[2]}

\* "TI-1O1" with the lower confidence was dropped against "TI-101" on the
\* position ratio alone, at near-identical centres
C12_Witness ==
    /\ DedupRan
    /\ Len(dd_results) = 2
    /\ dd_results[1].text = TI_1O1 /\ dd_results[2].text = TI_101
    /\ dd_results[1].confidence < dd_results[2].confidence
    /\ dd_results[1].bbox # dd_results[2].bbox
    /\ CentersWithin2(dd_results[1].bbox, dd_results[2].bbox)
    /\ dd_keep = <<dd_results[2]>>

\* ---- fix_ocr_with_format

FixRan == pc = "fixed"

\* what a template character asks for: letters, digits or itself
Class(c) == IF isalpha(c) THEN "L" ELSE IF isdigit(c) THEN "N" ELSE "D"

\* no letter of the template is next to a digit
Separated(fmt) ==
    \A i \in 1 .. (Len(fmt) - 1) : {Class(fmt[i]), Class(fmt[i + 1])} # {"L", "N"}

\* s matches fmt: same delimiters, upper-case letters where fmt has letters,
\* digits where it has digits
WellFormed(t, fmt) ==
    /\ Len(t) = Len(fmt)
    /\ \A i \in DOMAIN t :
           CASE Class(fmt[i]) = "L" -> t[i] \in UpperSet
             [] Class(fmt[i]) = "N" -> t[i] \in DigitChars
             [] OTHER               -> t[i] = fmt[i]

\* t is a matching string in which some I/O of letter sections were read as
\* 1/0 and some 1/0 of digit sections as I/O
ConfusedReading(t, fmt) ==
    /\ Len(t) = Len(fmt)
    /\ \A i \in DOMAIN t :
           CASE Class(fmt[i]) = "L" -> t[i] \in UpperSet \cup {"1", "0"}
             [] Class(fmt[i]) = "N" -> t[i] \in DigitChars \cup {"I", "O"}
             [] OTHER               -> t[i] = fmt[i]

\* the matching string that t is a confused reading of
Intended(t, fmt) ==
    [i \in DOMAIN t |->
        CASE Class(fmt[i]) = "L" /\ t[i] = "1" -> "I"
          [] Class(fmt[i]) = "L" /\ t[i] = "0" -> "O"
          [] Class(fmt[i]) = "N" /\ t[i] = "I" -> "1"
          [] Class(fmt[i]) = "N" /\ t[i] = "O" -> "0"
          [] OTHER -> t[i]]

F1_I2345 == <<"F","1","-","I","2","3","4","5">>
FII2345  == <<"F","I","I","2","3","4","5">>

\* C13: for a template whose letter and digit sections are separated by
\* delimiters, a confused reading (I/O read as 1/0 in letter sections, 1/0
\* read as I/O in digit sections) of a matching string is corrected back to
\* that string; correct("F1-I2345", "FI-12345") = "FI-12345".
C13_RepairsConfusables ==
    FixRan =>
        /\ (Separated(fix_format) /\ ConfusedReading(fix_text, fix_format))
               => fix_result = Intended(fix_text, fix_format)
        /\ (fix_text = F1_I2345 /\ fix_format = FI_12345) => fix_result = FI_12345

\* confusables of both kinds were repaired in one string
C13_Witness ==
    /\ FixRan
    /\ fix_text = F1_I2345 /\ fix_format = FI_12345
    /\ fix_result = FI_12345

\* C14: a well-formed upper-case string is returned unchanged, for every
\* template; correct("AB-123", "AB-123") = "AB-123" and correct(F, F) = F for
\* upper-case F.
C14_NoOpOnWellFormed ==
    FixRan =>
        /\ WellFormed(fix_text, fix_format) => fix_result = fix_text
        /\ (fix_text = AB_123 /\ fix_format = AB_123) => fix_result = AB_123
        /\ (fix_text = fix_format /\ upper(fix_format) = fix_format)
               => fix_result = fix_format

\* a well-formed string with a letters section running into a digits section
C14_Witness ==
    /\ FixRan
    /\ WellFormed(fix_text, fix_format)
    /\ \E i \in 1 .. (Len(fix_format) - 1) :
           Class(fix_format[i]) = "L" /\ Class(fix_format[i + 1]) = "N"
    /\ \E i \in DOMAIN fix_text : fix_text[i] = "I"
    /\ \E i \in DOMAIN fix_text : fix_text[i] = "1"
    /\ fix_result = fix_text

\* the input as the sections see it
FixInput == upper(fix_text)

\* the character a step would read after consuming j characters
NextChar(step, j) == FixInput[step.start + j + 1]
InputLeft(step, j) == step.start + j < Len(FixInput)

\* C15: a Delimiter section emits the delimiter and advances when the next
\* input character equals it, emits the input's own character and advances
\* when that is another non-alphanumeric, and otherwise emits nothing and
\* consumes nothing; a missing delimiter is never inserted:
\* correct("FII2345", "FI-12345") = "FII2345".
C15_DelimiterSection ==
    FixRan =>
        /\ \A k \in DOMAIN fix_trace :
               fix_trace[k].type = "D" =>
                   IF InputLeft(fix_trace[k], 0) /\ NextChar(fix_trace[k], 0) = fix_trace[k].char
                   THEN fix_trace[k].emitted = <<fix_trace[k].char>> /\ fix_trace[k].consumed = 1
                   ELSE IF InputLeft(fix_trace[k], 0) /\ ~isalnum(NextChar(fix_trace[k], 0))
                   THEN /\ fix_trace[k].emitted = <<NextChar(fix_trace[k], 0)>>
                        /\ fix_trace[k].consumed = 1
                   ELSE fix_trace[k].emitted = <<>> /\ fix_trace[k].consumed = 0
        /\ (fix_text = FII2345 /\ fix_format = FI_12345) => fix_result = FII2345

\* the delimiter of FI-12345 was missing from the input and was not inserted
C15_Witness ==
    /\ FixRan
    /\ fix_text = FII2345 /\ fix_format = FI_12345
    /\ \E k \in DOMAIN fix_trace :
           fix_trace[k].type = "D" /\ fix_trace[k].consumed = 0 /\ fix_trace[k].emitted = <<>>
    /\ fix_result = FII2345

\* the cap of the letters section at position k of the template
LettersCap(k) ==
    IF k = 1 \/ fix_trace[k - 1].type = "D" THEN fix_trace[k].count + 2
    ELSE IF k = Len(fix_trace) /\ fix_trace[k - 1].type = "N" THEN fix_trace[k].count + 1
    ELSE fix_trace[k].count

\* a letters section ends after j characters
LettersEnd(k, j) ==
    \/ j = LettersCap(k)
    \/ ~InputLeft(fix_trace[k], j)
    \/ ~isalnum(NextChar(fix_trace[k], j))
    \/ isdigit(NextChar(fix_trace[k], j)) /\ j >= fix_trace[k].count
    \/ isdigit(NextChar(fix_trace[k], j)) /\ NextChar(fix_trace[k], j) \notin {"0", "1"}

\* C16: a Letters(n) section consumes at most n+2 characters when first or
\* right after a delimiter, at most n+1 when it is the final section after a
\* digits section, at most n otherwise; before the cap it stops only at the
\* end of the input, at a non-alphanumeric, at any digit once n characters are
\* consumed, and at a digit other than 0/1 before that.
C16_LettersSection ==
    FixRan =>
        \A k \in DOMAIN fix_trace :
            fix_trace[k].type = "L" =>
                /\ fix_trace[k].consumed <= LettersCap(k)
                /\ LettersEnd(k, fix_trace[k].consumed)
                /\ \A j \in 0 .. (fix_trace[k].consumed - 1) : ~LettersEnd(k, j)

\* a final letters section after a digits section was stopped by its cap of
\* n+1 with another letter still to read
C16_Witness ==
    /\ FixRan
    /\ \E k \in DOMAIN fix_trace :
           /\ fix_trace[k].type = "L"
           /\ k = Len(fix_trace) /\ k > 1 /\ fix_trace[k - 1].type = "N"
           /\ fix_trace[k].consumed = fix_trace[k].count + 1
           /\ InputLeft(fix_trace[k], fix_trace[k].consumed)
           /\ isalpha(NextChar(fix_trace[k], fix_trace[k].consumed))
    /\ \E k \in DOMAIN fix_trace :
           /\ fix_trace[k].type = "N"
           /\ fix_trace[k].consumed > 0

\* a digits section ends after j characters
DigitsEnd(k, j) ==
    \/ j = fix_trace[k].count + 1
    \/ ~InputLeft(fix_trace[k], j)
    \/ ~isalnum(NextChar(fix_trace[k], j))
    \/ isalpha(NextChar(fix_trace[k], j)) /\ j >= fix_trace[k].count
    \/ isalpha(NextChar(fix_trace[k], j)) /\ NextChar(fix_trace[k], j) \notin {"I", "O"}

SubRan == pc = "subclass_done"

\* the crop of a region is empty: it starts at or beyond the page edge
OffPage(det, name) ==
    \/ det.px + RegionOffset[name].dx - 5 >= RasterW
    \/ det.py + RegionOffset[name].dy - 5 >= RasterH

\* what one region of one detection gets, from its own circumstances only
OwnValue(i, name) ==
    IF ~sv_world.rendered[sv_detections[i].page] THEN <<>>
    ELSE IF OffPage(sv_detections[i], name) THEN <<>>
    ELSE IF sv_world.reading[i][name] = "raises" THEN <<>>
    ELSE RegionText[name]

Get(det, k, default) == IF k \in DOMAIN det THEN det[k] ELSE default

\* the detection came back with empty OCR text fields and OCR confidence 0
EmptyOcr(out) ==
    /\ out.status = "returned"
    /\ Get(out.det, "ocr_text", <<>>) = <<>>
    /\ Get(out.det, "ocr_raw", <<>>) = <<>>
    /\ Get(out.det, "ocr_confidence", 0) = 0

\* OCR was unavailable or failed for the command-line detector
ExtractFailed ==
    \/ ~of_world.available
    \/ ~of_world.rendered
    \/ of_world.engine.kind # "text"

\* sub-region extraction raised in the server
SubRegionFailed ==
    /\ of_world.model_ocr
    /\ of_det.label \in ClassesWithRegions
    /\ of_world.subclass = "raises"

\* the engine failed on the whole box in the server
WholeBoxFailed ==
    /\ of_world.model_ocr
    /\ of_det.label \notin ClassesWithRegions
    /\ of_world.engine.kind # "text"

\* C18: when OCR is unavailable or fails for a detection, the detection is
\* still returned with empty OCR text fields and OCR confidence 0, on the
\* whole-box path and the sub-region path of detect_in_pdf and in
\* extract_text_from_detections.
C18_FailedOcrGivesEmptyFields ==
    /\ (of_extract.status # "pending" /\ ExtractFailed) => EmptyOcr(of_extract)
    /\ (of_server.status # "pending" /\ (SubRegionFailed \/ WholeBoxFailed))
           => EmptyOcr(of_server)

\* ---- invalid boxes

\* a box with non-positive width or height
Degenerate(b) == b.width <= 0 \/ b.height <= 0

\* the call ended in an error outcome instead of an IoU value
ErrorOutcome(r) == "num" \notin DOMAIN r

\* C20: a box with non-positive width or height handed to iou or
\* calculate_iou is reported to the caller as a precondition violation, not
\* turned into an ordinary result such as IoU 0.
C20_DegenerateBoxRejected ==
    /\ (pc \in {"iou", "iou_done"} /\ (Degenerate(box1) \/ Degenerate(box2)))
           => ErrorOutcome(iou_det)
    /\ (pc = "iou_done" /\ (Degenerate(box1) \/ Degenerate(box2)))
           => ErrorOutcome(iou_srv)

\* ---- fix_ocr_with_format: what the output is made of

\* a character and its confusable partner
Partners(c) ==
    {c} \cup (IF c = "1" THEN {"I"} ELSE IF c = "I" THEN {"1"}
              ELSE IF c = "0" THEN {"O"} ELSE IF c = "O" THEN {"0"} ELSE {})

\* input characters consumed, and output characters emitted, before step k
ConsumedBefore(k) == TotalConsumed(SubSeq(fix_trace, 1, k - 1))
EmittedBefore(k)  == Len(JoinEmitted(SubSeq(fix_trace, 1, k - 1)))

\* the synthetic pad of step k: one I after a lone letter of Letters(n >= 2)
PadOf(k) == Len(fix_trace[k].emitted) - fix_trace[k].consumed

DetectRan == pc = "detected"

\* C21: in detect a template with more than 1000 raw matches contributes no
\* candidate, a template with at most 1000 matches contributes every one of
\* them, whatever the other templates do, and detect returns
C21_MatchCapSkipsOnlyThatTemplate ==
    DetectRan =>
        /\ detector.status = "returned"
        /\ Len(detector.raw) = Len(detector.world)
        /\ \A k \in DOMAIN detector.world :
              LET o == detector.world[k]
              IN  /\ (o.fits /\ o.num_matches > 1000) => detector.raw[k].count = 0
                  /\ (o.fits /\ o.num_matches <= 1000) =>
                        detector.raw[k].count = o.num_matches

\* one template with exactly 1000 matches beside templates over the cap,
\* another call with one template over the cap beside templates that match
C21_Witness ==
    /\ DetectRan
    /\ Len(detector.raw) >= 2
    /\ \E k \in DOMAIN detector.world :
          /\ detector.world[k].num_matches = 1000
          /\ detector.raw[k].count = 1000
          /\ \A j \in DOMAIN detector.world \ {k} :
                detector.world[j].num_matches = 1001 /\ detector.raw[j].count = 0

\* the annotations load_training_data found a page image for, by label
RECURSIVE LoadedOf(_, _, _)
LoadedOf(label, annotations, page_images) ==
    IF annotations = <<>> THEN <<>>
    ELSE LET a == Head(annotations)
             rest == LoadedOf(label, Tail(annotations), page_images)
         IN  IF a.label = label /\ a.page \in page_images THEN <<a>> \o rest ELSE rest

\* the variant set of one annotated crop
VariantRotations(multi_orientation) ==
    IF multi_orientation THEN {0, 90, 180, 270} ELSE {0}
VariantMirrors(include_inverted) ==
    IF include_inverted THEN {FALSE, TRUE} ELSE {FALSE}
Turned(img, rotation) ==
    CASE rotation = 0   -> img
      [] rotation = 90  -> cv2_rotate(img, "ROTATE_90_CLOCKWISE")
      [] rotation = 180 -> cv2_rotate(img, "ROTATE_180")
      [] rotation = 270 -> cv2_rotate(img, "ROTATE_90_COUNTERCLOCKWISE")
VariantSet(a, multi_orientation, include_inverted) ==
    { [image |-> IF m THEN cv2_flip(Turned(a.template_gray, r))
                      ELSE Turned(a.template_gray, r),
       rotation |-> r, inverted |-> m] :
        r \in VariantRotations(multi_orientation), m \in VariantMirrors(include_inverted) }
VariantCount(multi_orientation, include_inverted) ==
    (IF multi_orientation THEN 4 ELSE 1) * (IF include_inverted THEN 2 ELSE 1)

\* C22: the templates of a label are, annotation after annotation, exactly
\* the variant set of each annotated crop: 1, 2, 4 or 8 templates, every
\* flipped copy carrying the rotation of the variant it was flipped from;
\* detect leaves them as load_training_data stored them
C22_VariantsPerAnnotation ==
    pc \in {"trained", "detected"} =>
        LET n == VariantCount(detector.multi_orientation, detector.include_inverted)
        IN  \A label \in Labels :
               LET loaded == LoadedOf(label, detector.annotations, detector.page_images)
                   stored == IF label \in DOMAIN detector.templates.at
                             THEN detector.templates.at[label] ELSE <<>>
               IN  /\ Len(stored) = n * Len(loaded)
                   /\ \A i \in DOMAIN loaded :
                         { stored[j] : j \in (n * (i - 1) + 1) .. (n * i) }
                            = VariantSet(loaded[i], detector.multi_orientation,
                                         detector.include_inverted)
                   /\ (label \in DOMAIN detector.templates.at) = (loaded # <<>>)

\* eight templates of one annotation, after a detect call
C22_Witness ==
    /\ DetectRan
    /\ detector.multi_orientation /\ detector.include_inverted
    /\ \E label \in DOMAIN detector.templates.at :
          /\ Len(detector.templates.at[label]) = 8
          /\ \E t \in Range(detector.templates.at[label]) :
                t.inverted /\ t.rotation = 270
    /\ \E k \in DOMAIN detector.raw : detector.raw[k].count > 0

\* ---- detect_in_pdf: when the cross-model suppression and the OCR run
PdfReturned == pc = "pdf_done"
Survivors == { pdf_run.all_detections[k].id : k \in DOMAIN pdf_run.all_detections }

\* C23: cross_model_nms runs exactly once, after the loops over all pages
\* and models, and every OCR call is made after it, for a detection that it
\* kept
C23_NmsOnceThenOcrOnSurvivors ==
    /\ pdf_run # <<>> =>
          /\ pdf_run.nms_runs = (IF pdf_run.status = "returned" THEN 1 ELSE 0)
          /\ pdf_run.nms_runs > 0 => LoopsDone(pdf_run)
    /\ PdfReturned =>
          \A k \in DOMAIN pdf_run.ocr_calls :
             /\ pdf_run.ocr_calls[k].after_nms
             /\ pdf_run.ocr_calls[k].id \in Survivors

\* the part of C23 that the code keeps: one suppression, after all loops
C23_NmsOnceAfterLoops ==
    pdf_run # <<>> =>
        /\ pdf_run.nms_runs = (IF pdf_run.status = "returned" THEN 1 ELSE 0)
        /\ pdf_run.nms_runs > 0 => LoopsDone(pdf_run)

\* a returned call in which the engine read a detection that the
\* suppression then dropped
C23_OcrOnDropped ==
    /\ PdfReturned
    /\ \E k \in DOMAIN pdf_run.ocr_calls : pdf_run.ocr_calls[k].id \notin Survivors

\* ---- the page cache
Failed(t) == threads[t].result \in {"KeyError", "StopIteration"}

\* C24: with several threads the accesses to the page cache exclude one
\* another: the cache never holds more than 20 entries and no call fails
\* because another thread changed the cache between its check and its update
C24_CacheAccessesExclusive ==
    pc = "cache" =>
        /\ Len(page_cache) <= 20
        /\ \A t \in DOMAIN threads : ~Failed(t)

\* 21 entries in the cache of two threads
C24_CacheOverfull == pc = "cache" /\ DOMAIN threads = {1, 2} /\ Len(page_cache) > 20

\* a call that ended in a KeyError
C24_CallFailed == pc = "cache" /\ \E t \in DOMAIN threads : Failed(t)

\* C25: one caller at a time: the cache holds at most 20 entries, the entry
\* evicted on a miss on a full cache is the one inserted earliest, a hit
\* leaves every entry's age and place as it was, a failed render stores no
\* entry for its key, and no call fails
C25_BoundedOldestFirst ==
    pc = "cache" =>
        /\ Len(page_cache) <= 20
        /\ \A i, j \in DOMAIN page_cache :
              i # j => page_cache[i].key # page_cache[j].key
        /\ \A t \in DOMAIN threads :
              /\ threads[t].at = "evict" =>
                    /\ Len(page_cache) = 20
                    /\ \E i \in DOMAIN page_cache :
                          /\ page_cache[i].key = threads[t].oldest_key
                          /\ \A j \in DOMAIN page_cache :
                                page_cache[j].born >= page_cache[i].born
              /\ (threads[t].at = "idle" /\ threads[t].result = "None") =>
                    threads[t].key \notin CachedKeys(page_cache)
              /\ ~Failed(t)

\* a hit on the oldest entry, then a miss on the full cache about to evict
\* that same entry
C25_Witness ==
    /\ pc = "cache"
    /\ DOMAIN threads = {1}
    /\ threads[1].at = "evict" /\ threads[1].oldest_key = 1
    /\ threads[1].calls = 2
    /\ Len(page_cache) = 20

\* a failed render on a full cache: an entry was evicted, none was stored
C25_WitnessFailedRender ==
    /\ pc = "cache"
    /\ DOMAIN threads = {1}
    /\ threads[1].at = "idle" /\ threads[1].result = "None"
    /\ Len(page_cache) = 19
    /\ threads[1].calls = 1

\* ---- the model cache
\* what load_detector would read from disk now
OnDisk(m) == model_store.files[m]

\* C26: after every operation that writes or deletes model files, whatever
\* its response, load_detector returns nothing that was loaded before the
\* change: every cached model is the one on disk
C26_CacheNeverStale ==
    pc = "serve" =>
        \A m \in DOMAIN model_store.loaded_detectors :
            model_store.loaded_detectors[m] = OnDisk(m)

\* load_detector has returned a model that an import has since overwritten
C26_StaleLoad ==
    /\ pc = "serve"
    /\ model_store.last.op = "load"
    /\ model_store.last.returned.pkl # NoFile
    /\ model_store.last.returned # OnDisk(model_store.last.model_id)

\* ---- extract_subclass_values: the crop rectangle
Cropped == pc \in {"cropped", "cropped_again"}

\* C27: after padding and clamp the crop rectangle is well-formed and inside
\* the raster: 0 <= x <= x+w <= W and 0 <= y <= y+h <= H
C27_CropInsideRaster ==
    Cropped =>
        /\ 0 <= crop.rect.x /\ crop.rect.x <= crop.rect.x + crop.rect.w
        /\ crop.rect.x + crop.rect.w <= RasterW
        /\ 0 <= crop.rect.y /\ crop.rect.y <= crop.rect.y + crop.rect.h
        /\ crop.rect.y + crop.rect.h <= RasterH

\* the bounds the clamp does keep
C27_ClampKeeps ==
    Cropped =>
        /\ 0 <= crop.rect.x /\ crop.rect.x + crop.rect.w <= RasterW
        /\ 0 <= crop.rect.y /\ crop.rect.y + crop.rect.h <= RasterH

\* a region that starts right of the raster: negative width after the clamp
C27_NegativeWidth == Cropped /\ crop.rect.x > RasterW /\ crop.rect.w < 0

====
